---- MODULE Spec2Model ----
(***************************************************************************)
(* Per-tunnel virtual-TUN packet relay and session controller of           *)
(* nexus-multi-vpn (app/src/main/cpp).                                     *)
(*                                                                         *)
(* Part 1 (SpecTun): CustomTunClient, the adapter that owns the socket     *)
(* pair of one tunnel, with the two kernel queues of the pair.             *)
(* Part 2 (SpecSession): OpenVpnSession / AndroidOpenVPNClient, the        *)
(* wrapper's connect / disconnect / destroy with the worker thread and     *)
(* the engine's events; SpecSessionFair adds the scheduling of the         *)
(* application's thread, SpecConnect every error return of connect().      *)
(* Part 3 (SpecFactory): the factory, the adapter's life and the lookup of *)
(* the application's descriptor.                                           *)
(***************************************************************************)
EXTENDS Integers, Sequences, FiniteSets, TLC

\* ------------------------------------------------------------------ bounds
MaxPkts == 3      \* packets handed to the channel, both directions together
MaxQueue == 2     \* packets one direction of the socket pair can hold
MaxStarts == 2    \* tun_start calls on the adapter
MaxWorkers == 2   \* connection threads one session starts
MaxSessions == 2  \* session objects alive at a time
MaxSent == 1      \* packets counted on one session's channel
MaxLines == 3     \* lines of a configuration text

\* ------------------------------------------------------- program constants
DefaultMtu == 1500       \* mtu_(1500)
ReadBufSize == 2048      \* std::array<uint8_t, 2048> of queue_read
AppReadBufSize == 2048   \* the application's read buffer (tests)
Headroom == 256          \* constexpr size_t HEADROOM
Tailroom == 128          \* constexpr size_t TAILROOM
MaxOverhead == 100       \* MAX_OVERHEAD of the headroom test

\* packet lengths tried; a packet is legal when its length is <= mtu_
PktLens == {1500, 2049}

Min(a, b) == IF a < b THEN a ELSE b

VARIABLES
  \* ---- CustomTunClient fields
  app_fd_, lib_fd_, stream_, halt_, mtu_,
  \* ---- adapter object and kernel state
  tunAlive,      \* FALSE once ~CustomTunClient has run
  nextFd,        \* next descriptor number socketpair() hands out
  nonblock,      \* descriptors with O_NONBLOCK set
  closes,        \* descriptor -> number of close() calls made on it
  chanToLib,     \* packets written on app_fd_, readable on lib_fd_
  chanToApp,     \* packets written on lib_fd_, readable on app_fd_
  readPending,   \* "none" | "armed" | "aborted": the async_read_some
  cancelCount,   \* stream_->cancel() calls
  tun_error,     \* parent_.tun_error raised
  startLog,      \* what the latest tun_start did, in order
  starts,        \* tun_start calls so far
  \* ---- observations
  nextAppId, nextLibId,
  appWritten,    \* packets the application wrote, in order
  libRead,       \* what handle_read got from lib_fd_, in order
  recvCount,     \* packets parent_.tun_recv accepted
  libSent,       \* packets tun_send wrote successfully, in order
  appRead,       \* what the application read from app_fd_, in order
  sendObs,       \* what the latest tun_send call did
  stopCalled,    \* stop() has been called on the adapter
  stopRun,       \* stop() calls since the latest tun_start, capped at 2
  lastStopEffects, \* close() and cancel() calls made by the latest stop()
  \* ---- AndroidOpenVPNClient and CustomTunClientFactory
  factoryCreated_, \* factoryCreated_ && customTunClientFactory_ != nullptr
  tun_client_,   \* the factory's tun_client_ is not null
  fdObs          \* the latest openvpn_wrapper_get_app_fd call

tunVars == <<app_fd_, lib_fd_, stream_, halt_, mtu_, tunAlive, nextFd, nonblock,
             closes, chanToLib, chanToApp, readPending, cancelCount, tun_error,
             startLog, starts, nextAppId, nextLibId, appWritten, libRead,
             recvCount, libSent, appRead, sendObs, stopCalled, stopRun,
             lastStopEffects, factoryCreated_, tun_client_, fdObs>>

factoryVars == <<factoryCreated_, tun_client_, fdObs>>

VARIABLES
  \* ---- OpenVpnSession fields
  connected, connecting, should_stop,
  last_error,    \* "" (empty) or the message stored last
  joinable,      \* connection_thread.joinable()
  threadOf,      \* the worker connection_thread refers to (0: none)
  \* ---- AndroidOpenVPNClient
  destroying_,
  callbacksSet,  \* the client holds non-null handler references
  clientFreed,   \* delete androidClient has completed
  \* ---- threads
  apiPc,         \* where the application's thread is
  workers,       \* worker -> [pc, emitted, inEvent, calls]; emitted: the
                 \* worker delivered CONNECTED as the current attempt;
                 \* calls: its client->connect() invocations
  attempt,       \* connect attempts started; the latest is the current one
  stopRequested, \* client->stop() has been called since the latest
                 \* connect() that started a worker
  terminated,    \* std::terminate was called
  memErr,        \* a thread touched freed memory
  \* ---- observations
  destroyBegun,  \* openvpn_wrapper_destroy_session has been entered
  handlerLate,   \* a handler was invoked after destroy had begun
  markEmitted,   \* CONNECTED was emitted since connecting was last set
  disconnected,  \* disconnect() has returned since the latest connect()
  discRun,       \* disconnect() calls since the latest connect(), max 2
  apiObs,        \* the call or handler dispatch that has just been made
  errorRef,      \* the const char* a get_last_error() in progress holds
  destroyLog     \* what destroy_session has done so far, in order

sessVars == <<connected, connecting, should_stop, last_error, joinable,
              threadOf, destroying_, callbacksSet, clientFreed, apiPc, workers,
              attempt, stopRequested, terminated, memErr, destroyBegun,
              handlerLate, markEmitted, disconnected, discRun, apiObs,
              errorRef, destroyLog>>

VARIABLES
  \* ---- openvpn_jni.cpp
  sessions,       \* the registry: tunnel id -> session pointer (0: no entry)
  sessions_mutex, \* the thread that holds sessions_mutex, or NoThread
  jni,            \* thread -> [pc, id, session]: where it is in a JNI call
  pool,           \* address -> the OpenVpnSession allocated there, if any
  lookupObs       \* the registry lookup that has just been made

jniVars == <<sessions, sessions_mutex, jni, pool, lookupObs>>

VARIABLES
  \* ---- one route option of a PUSH_REPLY going through extract_tun_config
  route,         \* [addr, netmask]: the option's fields
  routeObs,      \* the on_route_pushed callback made for it
  \* ---- one outbound packet going through handle_read
  pktSize,       \* bytes_read
  hdrSize,       \* bytes the engine prepends to the packet
  buf,           \* the BufferAllocated built for the packet
  \* ---- the configuration text going through connect()
  config_content, \* [lines, eol]: the lines of the text, each a sequence
                  \* of words; eol: the text ends with a newline
  configStage    \* "raw" or "normalized"

pureVars == <<route, routeObs, pktSize, hdrSize, buf, config_content,
              configStage>>

VARIABLES
  \* ---- the handler references of one session and its client
  tunnelId,           \* session->tunnelId ("": not set)
  ipAddressCallback,  \* session->ipAddressCallback (0: null)
  tunnelId_,          \* the client's tunnelId_
  ipAddressCallback_, \* the client's ipAddressCallback_
  tunnel_id_,         \* the factory's and the adapter's tunnel_id_
  globalRefs,         \* the JNI global references that exist
  nextRef,            \* the reference the next NewGlobalRef returns
  setPc,              \* where a set_tunnel_id_and_callback call is
  tunPc,              \* where the worker is on its way to tun_start
  heldRef,            \* ipAddressCallback_ as on_ip_assigned's guard read it
  registered,         \* a call that registered an IP handler has returned
  idAtConnect,        \* the tunnel id was set when connect() was called
  ipObs               \* what on_ip_assigned did with the assigned address

cbVars == <<tunnelId, ipAddressCallback, tunnelId_, ipAddressCallback_,
            tunnel_id_, globalRefs, nextRef, setPc, tunPc, heldRef,
            registered, idAtConnect, ipObs>>

VARIABLES
  \* ---- the socket pairs createPipe keeps per tunnel id
  tunnel_sockets,  \* the map: tunnel id -> [openvpnFd, kotlinFd]
  sockets_mutex,   \* the thread holding sockets_mutex (0: free)
  pipeCalls,       \* per calling thread: where its JNI call is
  socketsCreated,  \* every pair socketpair() has returned, with its id
  nextPipeFd       \* the descriptor socketpair() returns next

pipeVars == <<tunnel_sockets, sockets_mutex, pipeCalls, socketsCreated,
              nextPipeFd>>

fnVars == <<pureVars, cbVars, pipeVars>>

progVars == <<tunVars, sessVars, jniVars>>

vars == <<tunVars, sessVars, jniVars, fnVars>>

Workers == 1..MaxWorkers

\* descriptor numbers socketpair() can hand out
FdRange == 0 .. (2 * MaxStarts + 1)

\* ------------------------------------------------------------ constructor
\* the fields as CustomTunClient() sets them, nothing written or read yet
InitTunFields ==
  /\ app_fd_ = -1 /\ lib_fd_ = -1 /\ stream_ = FALSE /\ halt_ = FALSE
  /\ mtu_ = DefaultMtu
  /\ nextFd = 0
  /\ nonblock = {}
  /\ closes = [fd \in FdRange |-> 0]
  /\ chanToLib = << >> /\ chanToApp = << >>
  /\ readPending = "none"
  /\ cancelCount = 0
  /\ tun_error = FALSE
  /\ startLog = << >>
  /\ starts = 0
  /\ nextAppId = 1 /\ nextLibId = 1
  /\ appWritten = << >> /\ libRead = << >> /\ recvCount = 0
  /\ libSent = << >> /\ appRead = << >>
  /\ sendObs = [called |-> FALSE, afterStop |-> FALSE, ret |-> FALSE,
                wrote |-> FALSE]
  /\ stopCalled = FALSE /\ stopRun = 0 /\ lastStopEffects = 0

NoFdCall == [called |-> FALSE, ret |-> -1, started |-> FALSE,
             usedFreed |-> FALSE]

\* The adapter has just been built by the factory.
InitTun ==
  /\ InitTunFields
  /\ tunAlive = TRUE
  /\ factoryCreated_ = TRUE /\ tun_client_ = TRUE
  /\ fdObs = NoFdCall

\* AndroidOpenVPNClient(): no factory and no adapter yet.
InitFactory ==
  /\ InitTunFields
  /\ tunAlive = FALSE
  /\ factoryCreated_ = FALSE /\ tun_client_ = FALSE
  /\ fdObs = NoFdCall

\* --------------------------------------------------------- kernel queues
\* One direction of an AF_UNIX SOCK_SEQPACKET pair: every write is one
\* message, every read takes one message and keeps at most bufsize of it
\* (the rest of the message is discarded).
SockRead(pkt, bufsize) == [pkt EXCEPT !.len = Min(pkt.len, bufsize)]

\* What read() on descriptor fd does when its receive queue is as given:
\* with nothing queued a descriptor with O_NONBLOCK fails at once with
\* EAGAIN, any other descriptor blocks until a message arrives.
ReadOutcome(fd, queue) ==
  IF queue # << >> THEN "packet"
  ELSE IF fd \in nonblock THEN "would_block" ELSE "blocks"

\* tun_start setting O_NONBLOCK on both ends
NonBlockingEnds_Both(app, lib) == {app, lib}

\* The ends of a new pair tun_start sets O_NONBLOCK on.
NonBlockingEnds(app, lib) == {lib}

\* tun_send writing to the application end instead
TunSendFd_AppEnd == app_fd_

\* The descriptor tun_send writes to.
TunSendFd == lib_fd_

\* tun_send looking at the descriptor only
SendRefused_FdOnly == lib_fd_ < 0

\* tun_send refuses to write
SendRefused == halt_ \/ lib_fd_ < 0

\* cleanup() leaving the closed descriptor in the field
AfterClose_Kept(fd) == fd

\* value a descriptor field gets after cleanup() closed it
AfterClose(fd) == -1

CloseFd(c, fd) == IF fd >= 0 THEN [c EXCEPT ![fd] = @ + 1] ELSE c

\* ------------------------------------------------------------- cleanup()
\* halt_ = true; cancel and delete stream_; close app_fd_ and lib_fd_.
\* Closing the pair discards what its two queues still hold.
cleanup ==
  /\ halt_' = TRUE
  /\ cancelCount' = IF stream_ THEN cancelCount + 1 ELSE cancelCount
  /\ readPending' = IF stream_ /\ readPending = "armed" THEN "aborted"
                                                       ELSE readPending
  /\ stream_' = FALSE
  /\ closes' = CloseFd(CloseFd(closes, app_fd_), lib_fd_)
  /\ app_fd_' = (IF app_fd_ >= 0 THEN AfterClose(app_fd_) ELSE app_fd_)
  /\ lib_fd_' = (IF lib_fd_ >= 0 THEN AfterClose(lib_fd_) ELSE lib_fd_)
  /\ chanToLib' = IF app_fd_ >= 0 \/ lib_fd_ >= 0 THEN << >> ELSE chanToLib
  /\ chanToApp' = IF app_fd_ >= 0 \/ lib_fd_ >= 0 THEN << >> ELSE chanToApp

CleanupEffects ==
  (IF stream_ THEN 1 ELSE 0) + (IF app_fd_ >= 0 THEN 1 ELSE 0)
                             + (IF lib_fd_ >= 0 THEN 1 ELSE 0)

\* ---------------------------------------------------------------- stop()
stop ==
  /\ tunAlive
  /\ cleanup
  /\ stopCalled' = TRUE
  /\ stopRun' = Min(stopRun + 1, 2)
  /\ lastStopEffects' = CleanupEffects
  /\ UNCHANGED sessVars
  /\ UNCHANGED jniVars
  /\ UNCHANGED fnVars
  /\ UNCHANGED factoryVars
  /\ UNCHANGED <<mtu_, tunAlive, nextFd, nonblock, tun_error, startLog, starts,
                 nextAppId, nextLibId, appWritten, libRead, recvCount, libSent,
                 appRead, sendObs>>

\* ------------------------------------------------------ set_disconnect()
set_disconnect ==
  /\ tunAlive
  /\ halt_' = TRUE
  /\ UNCHANGED sessVars
  /\ UNCHANGED jniVars
  /\ UNCHANGED fnVars
  /\ UNCHANGED factoryVars
  /\ UNCHANGED <<app_fd_, lib_fd_, stream_, mtu_, tunAlive, nextFd, nonblock,
                 closes, chanToLib, chanToApp, readPending, cancelCount,
                 tun_error, startLog, starts, nextAppId, nextLibId, appWritten,
                 libRead, recvCount, libSent, appRead, sendObs, stopCalled,
                 stopRun, lastStopEffects>>

\* ------------------------------------------------------ ~CustomTunClient
DestroyTunClient ==
  /\ tunAlive
  /\ cleanup
  /\ tunAlive' = FALSE
  /\ UNCHANGED sessVars
  /\ UNCHANGED jniVars
  /\ UNCHANGED fnVars
  /\ UNCHANGED factoryVars
  /\ UNCHANGED <<mtu_, nextFd, nonblock, tun_error, startLog, starts,
                 nextAppId, nextLibId, appWritten, libRead, recvCount, libSent,
                 appRead, sendObs, stopCalled, stopRun, lastStopEffects>>

\* ------------------------------------------------- extract_tun_config()
\* The options of one PUSH_REPLY: an ifconfig line, a route line, a
\* dhcp-option DNS line, a tun-mtu line (0: none).
TunOptions ==
  { [ifconfig |-> FALSE, route |-> FALSE, dns |-> FALSE, mtu |-> 0],
    [ifconfig |-> TRUE, route |-> TRUE, dns |-> TRUE, mtu |-> 0],
    [ifconfig |-> TRUE, route |-> FALSE, dns |-> FALSE, mtu |-> 9000] }

\* The callbacks extract_tun_config makes, in the order it makes them.
ConfigCallbacks(opt) ==
  (IF opt.ifconfig THEN <<"on_ip_assigned">> ELSE << >>)
  \o (IF opt.route THEN <<"on_route_pushed">> ELSE << >>)
  \o (IF opt.dns THEN <<"on_dns_configured">> ELSE << >>)

ExtractedMtu(opt) == IF opt.mtu # 0 THEN opt.mtu ELSE mtu_

\* tun_start signalling tun_connected before it reports the configuration
StartSteps_ConnectedFirst(callbacks, armed) ==
  <<"socketpair", "tun_connected">> \o callbacks
    \o <<"tun_pre_tun_config", "tun_pre_route_config">>
    \o (IF armed THEN <<"queue_read">> ELSE << >>)

\* What a tun_start whose socketpair() succeeded does, in order: the pair
\* (with O_NONBLOCK on the engine end), extract_tun_config and its
\* callbacks, the two parent_ notifications, start_async_read (which arms
\* the read unless halted or the stream cannot be built), tun_connected.
StartSteps(callbacks, armed) ==
  <<"socketpair">> \o callbacks
    \o <<"tun_pre_tun_config", "tun_pre_route_config">>
    \o (IF armed THEN <<"queue_read">> ELSE << >>)
    \o <<"tun_connected">>

\* a tun_start that goes on to the notifications after socketpair() failed
StartFailureSteps_GoesOn ==
  <<"tun_error", "tun_pre_tun_config", "tun_pre_route_config",
    "tun_connected">>

\* What a tun_start whose socketpair() failed does: parent_.tun_error(
\* Error::TUN_SETUP_FAILED, "Failed to create socket pair: " +
\* strerror(errno)), then return.
StartFailureSteps == <<"tun_error">>

\* start_async_read() going on whatever the halt flag says
StartReadRuns_IgnoresHalt(halted, fd) == fd >= 0

\* start_async_read() goes on to create the stream and queue a read only
\* past its guard: if (halt_ || lib_fd_ < 0) return;
StartReadRuns(halted, fd) == ~halted /\ fd >= 0

\* ------------------------------------------------------------ tun_start()
\* sockOk: socketpair() succeeded; streamOk: the stream_descriptor was
\* constructed without an exception.  F_GETFL on the descriptor socketpair
\* just returned does not fail.
tun_start(opt, sockOk, streamOk) ==
  /\ tunAlive
  /\ app_fd_ < 0 /\ lib_fd_ < 0
  /\ starts < MaxStarts
  /\ starts' = starts + 1
  /\ stopRun' = 0
  /\ IF ~sockOk
       THEN /\ tun_error' = TRUE
            /\ startLog' = StartFailureSteps
            /\ UNCHANGED <<app_fd_, lib_fd_, stream_, mtu_, nextFd, nonblock,
                           readPending>>
       ELSE /\ app_fd_' = nextFd
            /\ lib_fd_' = nextFd + 1
            /\ nextFd' = nextFd + 2
            /\ nonblock' = nonblock \cup NonBlockingEnds(nextFd, nextFd + 1)
            /\ mtu_' = ExtractedMtu(opt)
            /\ stream_' = (StartReadRuns(halt_, nextFd + 1) /\ streamOk)
            /\ readPending' = IF StartReadRuns(halt_, nextFd + 1) /\ streamOk
                                THEN "armed" ELSE readPending
            /\ startLog' = StartSteps(ConfigCallbacks(opt),
                                    StartReadRuns(halt_, nextFd + 1) /\ streamOk)
            /\ UNCHANGED tun_error
  /\ UNCHANGED sessVars
  /\ UNCHANGED jniVars
  /\ UNCHANGED fnVars
  /\ UNCHANGED factoryVars
  /\ UNCHANGED <<halt_, tunAlive, closes, chanToLib, chanToApp, cancelCount,
                 nextAppId, nextLibId, appWritten, libRead, recvCount, libSent,
                 appRead, sendObs, stopCalled, lastStopEffects>>

\* ------------------------------------------------------------- tun_send()
\* write(lib_fd_, buf.c_data(), buf.size()) on a SOCK_SEQPACKET socket: the
\* message is queued whole and its size is returned, or nothing is queued
\* and -1 is returned (EAGAIN when the peer's queue is full, another errno
\* on a hard error).
WriteReturn(size, hardError, full) == IF hardError \/ full THEN -1 ELSE size

\* tun_send answering true whatever write() returned
SendReturn_Always(n, size) == TRUE

\* what tun_send returns after write() returned n for a packet of size
\* bytes: false when n < 0, false when n != size, else true
SendReturn(n, size) == n >= 0 /\ n = size

\* The engine hands over a decrypted packet of len bytes.  hardError: the
\* write fails with an errno other than EAGAIN.
tun_send(len, hardError) ==
  /\ tunAlive
  /\ nextAppId + nextLibId - 2 < MaxPkts
  /\ len <= mtu_
  /\ nextLibId' = nextLibId + 1
  /\ LET pkt == [dir |-> "in", id |-> nextLibId, len |-> len]
         fd == TunSendFd
         full == IF fd = lib_fd_ THEN Len(chanToApp) >= MaxQueue
                                 ELSE Len(chanToLib) >= MaxQueue
         wrote == ~SendRefused
         n == IF wrote /\ fd >= 0 THEN WriteReturn(len, hardError, full)
                                  ELSE -1
         written == n = len
         ret == wrote /\ SendReturn(n, len)
     IN /\ sendObs' = [called |-> TRUE, afterStop |-> stopCalled, ret |-> ret,
                      wrote |-> wrote]
        /\ chanToApp' = IF written /\ fd = lib_fd_ THEN Append(chanToApp, pkt)
                                                    ELSE chanToApp
        /\ chanToLib' = IF written /\ fd # lib_fd_ THEN Append(chanToLib, pkt)
                                                    ELSE chanToLib
        /\ libSent' = IF written THEN Append(libSent, pkt) ELSE libSent
  /\ UNCHANGED sessVars
  /\ UNCHANGED jniVars
  /\ UNCHANGED fnVars
  /\ UNCHANGED factoryVars
  /\ UNCHANGED <<app_fd_, lib_fd_, stream_, halt_, mtu_, tunAlive, nextFd,
                 nonblock, closes, readPending, cancelCount, tun_error,
                 startLog, starts, nextAppId, appWritten, libRead, recvCount,
                 appRead, stopCalled, stopRun, lastStopEffects>>

\* ---------------------------------------------------------- handle_read()
\* Completion of the async_read_some armed by queue_read.  error: the
\* read completed with an error code (operation_aborted after a cancel);
\* intakeThrows: the buffer allocation or parent_.tun_recv threw.
handle_read(error, intakeThrows) ==
  /\ readPending # "none"
  /\ readPending = "aborted" => error
  /\ ~error => chanToLib # << >>
  /\ LET got == SockRead(Head(chanToLib), ReadBufSize)
     IN /\ chanToLib' = IF error THEN chanToLib ELSE Tail(chanToLib)
        /\ libRead' = IF error THEN libRead ELSE Append(libRead, got)
        /\ recvCount' = IF ~halt_ /\ ~error /\ ~intakeThrows
                            THEN recvCount + 1 ELSE recvCount
        \* queue_read() runs after the intake and in both catch blocks,
        \* not after an error or an empty read
        /\ readPending' = IF ~halt_ /\ ~error /\ stream_ THEN "armed"
                                                          ELSE "none"
  /\ UNCHANGED sessVars
  /\ UNCHANGED jniVars
  /\ UNCHANGED fnVars
  /\ UNCHANGED factoryVars
  /\ UNCHANGED <<app_fd_, lib_fd_, stream_, halt_, mtu_, tunAlive, nextFd,
                 nonblock, closes, chanToApp, cancelCount, tun_error, startLog,
                 starts, nextAppId, nextLibId, appWritten, libSent, appRead,
                 sendObs, stopCalled, stopRun, lastStopEffects>>

\* ------------------------------------------------------- the application
\* A blocking write of one packet on app_fd_ (blocks while the queue is
\* full).
AppWrite(len) ==
  /\ app_fd_ >= 0
  /\ nextAppId + nextLibId - 2 < MaxPkts
  /\ len <= mtu_
  /\ Len(chanToLib) < MaxQueue
  /\ LET pkt == [dir |-> "out", id |-> nextAppId, len |-> len]
     IN /\ chanToLib' = Append(chanToLib, pkt)
        /\ appWritten' = Append(appWritten, pkt)
  /\ nextAppId' = nextAppId + 1
  /\ UNCHANGED sessVars
  /\ UNCHANGED jniVars
  /\ UNCHANGED fnVars
  /\ UNCHANGED factoryVars
  /\ UNCHANGED <<app_fd_, lib_fd_, stream_, halt_, mtu_, tunAlive, nextFd,
                 nonblock, closes, chanToApp, readPending, cancelCount,
                 tun_error, startLog, starts, nextLibId, libRead, recvCount,
                 libSent, appRead, sendObs, stopCalled, stopRun,
                 lastStopEffects>>

\* A blocking read of one packet on app_fd_.
AppRead ==
  /\ app_fd_ >= 0
  /\ chanToApp # << >>
  /\ appRead' = Append(appRead, SockRead(Head(chanToApp), AppReadBufSize))
  /\ chanToApp' = Tail(chanToApp)
  /\ UNCHANGED sessVars
  /\ UNCHANGED jniVars
  /\ UNCHANGED fnVars
  /\ UNCHANGED factoryVars
  /\ UNCHANGED <<app_fd_, lib_fd_, stream_, halt_, mtu_, tunAlive, nextFd,
                 nonblock, closes, chanToLib, readPending, cancelCount,
                 tun_error, startLog, starts, nextAppId, nextLibId, appWritten,
                 libRead, recvCount, libSent, sendObs, stopCalled, stopRun,
                 lastStopEffects>>

\* ------------------------------- AndroidOpenVPNClient::new_tun_factory()
\* The engine asks the client for the factory of the connect attempt.
new_tun_factory ==
  /\ ~factoryCreated_
  /\ factoryCreated_' = TRUE
  /\ UNCHANGED <<tun_client_, fdObs>>
  /\ UNCHANGED sessVars
  /\ UNCHANGED jniVars
  /\ UNCHANGED fnVars
  /\ UNCHANGED <<app_fd_, lib_fd_, stream_, halt_, mtu_, tunAlive, nextFd,
                 nonblock, closes, chanToLib, chanToApp, readPending,
                 cancelCount, tun_error, startLog, starts, nextAppId,
                 nextLibId, appWritten, libRead, recvCount, libSent, appRead,
                 sendObs, stopCalled, stopRun, lastStopEffects>>

\* ------------------------- CustomTunClientFactory::new_tun_client_obj()
\* The engine has the factory build the adapter; the factory keeps a
\* non-owning pointer to it, which nothing resets.
new_tun_client_obj ==
  /\ factoryCreated_ /\ ~tun_client_
  /\ tun_client_' = TRUE
  /\ tunAlive' = TRUE
  /\ UNCHANGED <<factoryCreated_, fdObs>>
  /\ UNCHANGED sessVars
  /\ UNCHANGED jniVars
  /\ UNCHANGED fnVars
  /\ UNCHANGED <<app_fd_, lib_fd_, stream_, halt_, mtu_, nextFd,
                 nonblock, closes, chanToLib, chanToApp, readPending,
                 cancelCount, tun_error, startLog, starts, nextAppId,
                 nextLibId, appWritten, libRead, recvCount, libSent, appRead,
                 sendObs, stopCalled, stopRun, lastStopEffects>>

\* ------------------------------------------ openvpn_wrapper_get_app_fd()
\* what a read of a descriptor field of a destroyed adapter may give
StaleValues == {-1} \cup FdRange

\* CustomTunClientFactory::getAppFd(): through tun_client_ when it is not
\* null; stale is what the read gives when the adapter was destroyed.
FactoryGetAppFd(stale) ==
  IF tun_client_ THEN (IF tunAlive THEN app_fd_ ELSE stale) ELSE -1

\* AndroidOpenVPNClient::getAppFd()
ClientGetAppFd(stale) ==
  IF factoryCreated_ THEN FactoryGetAppFd(stale) ELSE -1

GetAppFdRet(stale) ==
  IF ClientGetAppFd(stale) < 0 THEN -1 ELSE ClientGetAppFd(stale)

\* tun_start has created the pair and no stop() or destruction followed
AdapterStarted ==
  /\ tunAlive
  /\ startLog # << >> /\ startLog[1] = "socketpair"
  /\ stopRun = 0

\* the lookup goes through tun_client_ to an adapter that was destroyed
ReadsDestroyedAdapter == factoryCreated_ /\ tun_client_ /\ ~tunAlive

get_app_fd(stale) ==
  /\ fdObs' = [called |-> TRUE, ret |-> GetAppFdRet(stale),
               started |-> AdapterStarted,
               usedFreed |-> ReadsDestroyedAdapter]
  /\ UNCHANGED <<factoryCreated_, tun_client_>>
  /\ UNCHANGED sessVars
  /\ UNCHANGED jniVars
  /\ UNCHANGED fnVars
  /\ UNCHANGED <<app_fd_, lib_fd_, stream_, halt_, mtu_, tunAlive, nextFd,
                 nonblock, closes, chanToLib, chanToApp, readPending,
                 cancelCount, tun_error, startLog, starts, nextAppId,
                 nextLibId, appWritten, libRead, recvCount, libSent, appRead,
                 sendObs, stopCalled, stopRun, lastStopEffects>>

NextTun ==
  \/ \E opt \in TunOptions, sockOk, streamOk \in BOOLEAN :
        tun_start(opt, sockOk, streamOk)
  \/ stop
  \/ set_disconnect
  \/ DestroyTunClient
  \/ \E len \in PktLens, hardError \in BOOLEAN : tun_send(len, hardError)
  \/ \E error, intakeThrows \in BOOLEAN : handle_read(error, intakeThrows)
  \/ \E len \in PktLens : AppWrite(len)
  \/ AppRead

\* the factory, the adapter's life and the descriptor lookup
NextFactory ==
  \/ new_tun_factory
  \/ new_tun_client_obj
  \/ \E opt \in TunOptions, sockOk, streamOk \in BOOLEAN :
        tun_start(opt, sockOk, streamOk)
  \/ stop
  \/ set_disconnect
  \/ DestroyTunClient
  \/ \E stale \in StaleValues : get_app_fd(stale)

\* ======================================================= session part
NoCall == [op |-> "none"]

\* no get_last_error() in progress
NoRef == [kind |-> "none", text |-> "", stale |-> FALSE]

\* OpenVpnSession() with its AndroidOpenVPNClient()
InitSession ==
  /\ connected = FALSE /\ connecting = FALSE /\ should_stop = FALSE
  /\ last_error = ""
  /\ joinable = FALSE /\ threadOf = 0
  /\ destroying_ = FALSE /\ callbacksSet = FALSE /\ clientFreed = FALSE
  /\ apiPc = "idle"
  /\ workers = [w \in Workers |->
                  [pc |-> "unused", emitted |-> FALSE, inEvent |-> FALSE,
                   calls |-> 0]]
  /\ attempt = 0
  /\ stopRequested = FALSE /\ terminated = FALSE /\ memErr = FALSE
  /\ destroyBegun = FALSE /\ handlerLate = FALSE
  /\ markEmitted = FALSE
  /\ disconnected = FALSE /\ discRun = 0
  /\ apiObs = NoCall
  /\ errorRef = NoRef
  /\ destroyLog = << >>

\* the state_mutex is held across steps only by disconnect()
MutexFree == apiPc \notin {"disc", "disc_stopped"}

\* the application may start a call on the session
ApiReady == apiPc = "idle" /\ ~terminated

Running(w) == workers[w].pc = "running"

\* ------------------------- openvpn_wrapper_set_tunnel_id_and_callback()
\* withCallbacks: the caller passes handler objects (nativeConnect passes
\* nullptr, nativeSetTunnelIdAndCallback passes the application's).
set_tunnel_id_and_callback(withCallbacks) ==
  /\ ApiReady
  /\ callbacksSet' = (callbacksSet \/ withCallbacks)
  /\ apiObs' = NoCall
  /\ UNCHANGED <<connected, connecting, should_stop, last_error, joinable,
                 threadOf, destroying_, clientFreed, apiPc, workers, attempt,
                 stopRequested, terminated, memErr, destroyBegun, handlerLate,
                 markEmitted, disconnected, discRun>>
  /\ UNCHANGED errorRef
  /\ UNCHANGED destroyLog
  /\ UNCHANGED tunVars
  /\ UNCHANGED jniVars
  /\ UNCHANGED fnVars

\* ------------------------------------------- openvpn_wrapper_connect()
\* The error returns of connect(): what caused it, the code returned and
\* the message put in last_error (eval.message and credsStatus.message
\* come from the engine).
ConnectFailures ==
  { [cause |-> "null_param", ret |-> "INVALID_PARAMS",
     message |-> "Invalid parameters"],
    [cause |-> "config_failed", ret |-> "CONFIG_FAILED",
     message |-> "eval.message"],
    [cause |-> "creds_empty", ret |-> "INVALID_PARAMS",
     message |-> "Credentials are empty"],
    [cause |-> "creds_rejected", ret |-> "AUTH_FAILED",
     message |-> "credsStatus.message"] }

ConnectOutcomes == {"ok"} \cup {f.cause : f \in ConnectFailures}

\* the outcomes tried where the kind of failure makes no difference
ConnectInputs == {"ok", "null_param"}

Failure(outcome) == CHOOSE f \in ConnectFailures : f.cause = outcome

\* an error return that leaves last_error as it was
ConnectStored_Kept(f) == last_error

\* what an error return of connect() leaves in last_error
ConnectStored(f) == f.message

\* outcome: "ok" when the parameters are non-null and the profile and the
\* credentials are accepted, else the failure met.  The call never looks
\* at connected or connecting.  Assigning to a connection_thread that is
\* still joinable calls std::terminate, after the new thread has been
\* constructed.  The worker's first statement is client->connect().
connect(outcome) ==
  /\ ApiReady
  /\ attempt < MaxWorkers
  /\ IF outcome # "ok"
       THEN /\ last_error' = ConnectStored(Failure(outcome))
            /\ apiObs' = [op |-> "connect", active |-> connected \/ connecting,
                          ret |-> Failure(outcome).ret, cause |-> outcome]
            /\ UNCHANGED <<connected, connecting, should_stop, joinable,
                           threadOf, workers, attempt, terminated,
                           markEmitted, disconnected, discRun>>
       ELSE /\ should_stop' = FALSE
            /\ connecting' = TRUE
            /\ connected' = FALSE
            /\ markEmitted' = FALSE
            /\ attempt' = attempt + 1
            /\ workers' = [w \in Workers |->
                            IF w = attempt + 1
                              THEN [workers[w] EXCEPT !.pc = "running",
                                                      !.calls = 1]
                              ELSE [workers[w] EXCEPT !.emitted = FALSE]]
            /\ terminated' = joinable
            /\ joinable' = TRUE
            /\ threadOf' = IF joinable THEN threadOf ELSE attempt + 1
            /\ disconnected' = FALSE
            /\ discRun' = 0
            /\ apiObs' = [op |-> "connect", active |-> connected \/ connecting,
                          ret |-> IF joinable THEN "terminate" ELSE "SUCCESS",
                          cause |-> outcome]
            /\ UNCHANGED last_error
  /\ stopRequested' = (stopRequested /\ outcome # "ok")
  /\ UNCHANGED <<destroying_, callbacksSet, clientFreed, apiPc,
                 memErr, destroyBegun, handlerLate>>
  /\ UNCHANGED errorRef
  /\ UNCHANGED destroyLog
  /\ UNCHANGED tunVars
  /\ UNCHANGED jniVars
  /\ UNCHANGED fnVars

\* ---------------------------------------- openvpn_wrapper_disconnect()
\* First half: lock state_mutex; if (client && connected) { should_stop =
\* true; client->stop(); }
disconnect_stop ==
  /\ ~terminated
  /\ apiPc \in {"idle", "destroy_disc"}
  /\ apiPc' = IF connected THEN "disc_stopped" ELSE "disc"
  /\ discRun' = Min(discRun + 1, 2)
  /\ should_stop' = (should_stop \/ connected)
  /\ stopRequested' = (stopRequested \/ connected)
  /\ apiObs' = NoCall
  /\ UNCHANGED <<connected, connecting, last_error, joinable, threadOf,
                 destroying_, callbacksSet, clientFreed, workers, attempt,
                 terminated, memErr, destroyBegun, handlerLate, markEmitted,
                 disconnected>>
  /\ UNCHANGED errorRef
  /\ UNCHANGED destroyLog
  /\ UNCHANGED tunVars
  /\ UNCHANGED jniVars
  /\ UNCHANGED fnVars

\* Second half: connected = false; a joinable connection_thread is
\* detached after 100 ms; unlock.  connecting is left as it is.  The
\* worker cannot clear connecting while the mutex is held, so the session
\* was in flight at entry iff the engine was stopped or connecting is set.
\* a disconnect() that joins the connection_thread instead of detaching it
DisconnectWaitsFor_Join == IF joinable THEN {threadOf} ELSE {}

\* The workers disconnect() waits for before it goes on: none; it sleeps
\* 100 ms and detaches.
DisconnectWaitsFor == {}

disconnect_mark ==
  /\ ~terminated
  /\ apiPc \in {"disc", "disc_stopped"}
  /\ \A w \in DisconnectWaitsFor : workers[w].pc = "done"
  /\ connected' = FALSE
  /\ joinable' = FALSE
  /\ threadOf' = 0
  /\ disconnected' = TRUE
  /\ apiPc' = IF destroyBegun THEN "dtor_stop" ELSE "idle"
  /\ apiObs' = [op |-> "disconnect", second |-> discRun = 2,
                stopped |-> apiPc = "disc_stopped", detached |-> joinable,
                active |-> (apiPc = "disc_stopped") \/ connecting]
  /\ UNCHANGED <<connecting, should_stop, last_error, destroying_,
                 callbacksSet, clientFreed, workers, attempt, stopRequested,
                 terminated, memErr, destroyBegun, handlerLate, markEmitted,
                 discRun>>
  /\ UNCHANGED errorRef
  /\ destroyLog' = IF destroyBegun THEN Append(destroyLog, "disconnect")
                                    ELSE destroyLog
  /\ UNCHANGED tunVars
  /\ UNCHANGED jniVars
  /\ UNCHANGED fnVars

\* ---------------------------------------- openvpn_wrapper_is_connected()
\* is_connected answering for a session that is connecting as well
IsConnectedRet_OrConnecting == IF connected \/ connecting THEN 1 ELSE 0

IsConnectedRet == IF connected THEN 1 ELSE 0

\* Runs under state_mutex; changes nothing.
is_connected ==
  /\ ApiReady
  /\ apiObs' = [op |-> "is_connected", ret |-> IsConnectedRet]
  /\ UNCHANGED <<connected, connecting, should_stop, last_error, joinable,
                 threadOf, destroying_, callbacksSet, clientFreed, apiPc,
                 workers, attempt, stopRequested, terminated, memErr,
                 destroyBegun, handlerLate, markEmitted, disconnected,
                 discRun>>
  /\ UNCHANGED errorRef
  /\ UNCHANGED destroyLog
  /\ UNCHANGED tunVars
  /\ UNCHANGED jniVars
  /\ UNCHANGED fnVars

\* the message of the engine's Status, or of the exception caught
EngineMessage == "connectStatus.message"

\* --------------------------------------- openvpn_wrapper_get_last_error()
\* what get_last_error() returns (under state_mutex)
LastErrorText == IF last_error = "" THEN "No error" ELSE last_error

\* openvpn_wrapper_get_last_error(): under state_mutex it picks the literal
\* "No error" or last_error.c_str(), unlocks and returns the pointer.
get_last_error ==
  /\ ApiReady
  /\ apiPc' = "get_last_error"
  /\ errorRef' = [kind |-> IF last_error = "" THEN "literal" ELSE "buffer",
                  text |-> LastErrorText, stale |-> FALSE]
  /\ apiObs' = NoCall
  /\ UNCHANGED <<connected, connecting, should_stop, last_error, joinable,
                 threadOf, destroying_, callbacksSet, clientFreed,
                 workers, attempt, stopRequested, terminated, memErr,
                 destroyBegun, handlerLate, markEmitted, disconnected,
                 discRun>>
  /\ UNCHANGED destroyLog
  /\ UNCHANGED tunVars
  /\ UNCHANGED jniVars
  /\ UNCHANGED fnVars

\* what a read through a pointer into a buffer that was since reassigned
\* may give: nothing, the new message, or other bytes
StaleTexts == {"", EngineMessage, "garbage"}

\* nativeGetLastError: NewStringUTF copies the characters the pointer
\* refers to, without the mutex.
nativeGetLastError_copy(seen) ==
  /\ ~terminated
  /\ apiPc = "get_last_error"
  /\ apiPc' = "idle"
  /\ apiObs' = [op |-> "get_last_error",
                ret |-> IF errorRef.stale THEN seen ELSE errorRef.text,
                recorded |-> errorRef.text]
  /\ errorRef' = NoRef
  /\ UNCHANGED <<connected, connecting, should_stop, last_error, joinable,
                 threadOf, destroying_, callbacksSet, clientFreed,
                 workers, attempt, stopRequested, terminated, memErr,
                 destroyBegun, handlerLate, markEmitted, disconnected,
                 discRun>>
  /\ UNCHANGED destroyLog
  /\ UNCHANGED tunVars
  /\ UNCHANGED jniVars
  /\ UNCHANGED fnVars

\* ------------------------------------------------------ reconnectSession()
\* a reconnectSession that calls the engine whatever the flags say
ReconnectCalls_Always(isConnected, isConnecting) == 1

\* androidClient->reconnect(0) invocations of one call, from what it read
\* in  if (!session->connected && !session->connecting) return;
ReconnectCalls(isConnected, isConnecting) ==
  IF isConnected \/ isConnecting THEN 1 ELSE 0

\* Entry.  isNull: the caller passed a null session.  The two flags are
\* read without state_mutex, connected first; when connected reads true
\* connecting is not read and the engine is called: throws says whether
\* androidClient->reconnect(0) threw.  When connected reads false, the
\* call goes on to read connecting; apiPc keeps whether connecting was set
\* at entry.
reconnectSession_entry(isNull, throws) ==
  /\ ApiReady
  /\ IF isNull
       THEN /\ apiObs' = [op |-> "reconnect", null |-> TRUE,
                          active |-> FALSE, calls |-> 0]
            /\ UNCHANGED <<apiPc, last_error>>
       ELSE IF connected
         THEN LET calls == ReconnectCalls(TRUE, FALSE)
              IN /\ last_error' = IF calls > 0 /\ throws
                                     THEN "Reconnect failed" ELSE last_error
                 /\ apiObs' = [op |-> "reconnect", null |-> FALSE,
                               active |-> TRUE, calls |-> calls]
                 /\ UNCHANGED apiPc
         ELSE /\ apiPc' = IF connecting THEN "reconn_active"
                                         ELSE "reconn_idle"
              /\ apiObs' = NoCall
              /\ UNCHANGED last_error
  /\ UNCHANGED <<connected, connecting, should_stop, joinable, threadOf,
                 destroying_, callbacksSet, clientFreed, workers,
                 attempt, stopRequested, terminated, memErr, destroyBegun,
                 handlerLate, markEmitted, disconnected, discRun>>
  /\ UNCHANGED errorRef
  /\ UNCHANGED destroyLog
  /\ UNCHANGED tunVars
  /\ UNCHANGED jniVars
  /\ UNCHANGED fnVars

\* The rest, after connected was read false: connecting is read, and the
\* engine is called if it is set.
reconnectSession_rest(throws) ==
  /\ ~terminated
  /\ apiPc \in {"reconn_active", "reconn_idle"}
  /\ LET calls == ReconnectCalls(FALSE, connecting)
     IN /\ last_error' = IF calls > 0 /\ throws
                            THEN "Reconnect failed" ELSE last_error
        /\ apiObs' = [op |-> "reconnect", null |-> FALSE,
                      active |-> apiPc = "reconn_active", calls |-> calls]
  /\ apiPc' = "idle"
  /\ UNCHANGED <<connected, connecting, should_stop, joinable, threadOf,
                 destroying_, callbacksSet, clientFreed, workers,
                 attempt, stopRequested, terminated, memErr, destroyBegun,
                 handlerLate, markEmitted, disconnected, discRun>>
  /\ UNCHANGED errorRef
  /\ UNCHANGED destroyLog
  /\ UNCHANGED tunVars
  /\ UNCHANGED jniVars
  /\ UNCHANGED fnVars

\* ------------------------------------ openvpn_wrapper_destroy_session()
\* Entry: if (session->connected) openvpn_wrapper_disconnect(session);
\* then delete session.
\* destroy that goes to delete session whatever connected is
DestroyEntry_NoDisconnect(isConnected) == "dtor_stop"

\* where destroy goes first: into disconnect() when connected is set
DestroyEntry(isConnected) ==
  IF isConnected THEN "destroy_disc" ELSE "dtor_stop"

destroy_session ==
  /\ ApiReady
  /\ destroyBegun' = TRUE
  /\ apiPc' = DestroyEntry(connected)
  /\ apiObs' = NoCall
  /\ UNCHANGED <<connected, connecting, should_stop, last_error, joinable,
                 threadOf, destroying_, callbacksSet, clientFreed, workers,
                 attempt, stopRequested, terminated, memErr, handlerLate,
                 markEmitted, disconnected, discRun>>
  /\ UNCHANGED errorRef
  /\ destroyLog' = <<IF connected THEN "connected" ELSE "not_connected">>
  /\ UNCHANGED tunVars
  /\ UNCHANGED jniVars
  /\ UNCHANGED fnVars

\* ~OpenVpnSession, first statements: should_stop = true; stop the engine
\* if (connected || connecting).
SessionDtor_stop ==
  /\ ~terminated
  /\ apiPc = "dtor_stop"
  /\ should_stop' = TRUE
  /\ stopRequested' = (stopRequested \/ connected \/ connecting)
  /\ apiPc' = "dtor_join"
  /\ apiObs' = NoCall
  /\ UNCHANGED <<connected, connecting, last_error, joinable, threadOf,
                 destroying_, callbacksSet, clientFreed, workers, attempt,
                 terminated, memErr, destroyBegun, handlerLate, markEmitted,
                 disconnected, discRun>>
  /\ UNCHANGED errorRef
  /\ UNCHANGED destroyLog
  /\ UNCHANGED tunVars
  /\ UNCHANGED jniVars
  /\ UNCHANGED fnVars

\* ~OpenVpnSession: if (connection_thread.joinable()) join();
SessionDtor_join ==
  /\ ~terminated
  /\ apiPc = "dtor_join"
  /\ joinable => workers[threadOf].pc = "done"
  /\ joinable' = FALSE
  /\ threadOf' = 0
  /\ apiPc' = "dtor_client"
  /\ apiObs' = NoCall
  /\ UNCHANGED <<connected, connecting, should_stop, last_error, destroying_,
                 callbacksSet, clientFreed, workers, attempt, stopRequested,
                 terminated, memErr, destroyBegun, handlerLate, markEmitted,
                 disconnected, discRun>>
  /\ UNCHANGED errorRef
  /\ UNCHANGED destroyLog
  /\ UNCHANGED tunVars
  /\ UNCHANGED jniVars
  /\ UNCHANGED fnVars

\* delete androidClient, the body of ~AndroidOpenVPNClient: destroying_ =
\* true and the handler references are nulled.
ClientDtor_mark ==
  /\ ~terminated
  /\ apiPc = "dtor_client"
  /\ destroying_' = TRUE
  /\ callbacksSet' = FALSE
  /\ apiPc' = "dtor_client_free"
  /\ apiObs' = NoCall
  /\ UNCHANGED <<connected, connecting, should_stop, last_error, joinable,
                 threadOf, clientFreed, workers, attempt, stopRequested,
                 terminated, memErr, destroyBegun, handlerLate, markEmitted,
                 disconnected, discRun>>
  /\ UNCHANGED errorRef
  /\ UNCHANGED destroyLog
  /\ UNCHANGED tunVars
  /\ UNCHANGED jniVars
  /\ UNCHANGED fnVars

\* delete androidClient, the rest: the base destructor runs and the memory
\* of the client is released.
ClientDtor_free ==
  /\ ~terminated
  /\ apiPc = "dtor_client_free"
  /\ clientFreed' = TRUE
  /\ apiPc' = "dtor_refs"
  /\ apiObs' = NoCall
  /\ UNCHANGED <<connected, connecting, should_stop, last_error, joinable,
                 threadOf, destroying_, callbacksSet, workers, attempt,
                 stopRequested, terminated, memErr, destroyBegun, handlerLate,
                 markEmitted, disconnected, discRun>>
  /\ UNCHANGED errorRef
  /\ destroyLog' = Append(destroyLog, "client_released")
  /\ UNCHANGED tunVars
  /\ UNCHANGED jniVars
  /\ UNCHANGED fnVars

\* ~OpenVpnSession, the end: the handler references are released and the
\* session is freed; openvpn_wrapper_destroy_session returns.
SessionDtor_refs ==
  /\ ~terminated
  /\ apiPc = "dtor_refs"
  /\ apiPc' = "freed"
  /\ apiObs' = NoCall
  /\ UNCHANGED <<connected, connecting, should_stop, last_error, joinable,
                 threadOf, destroying_, callbacksSet, clientFreed, workers,
                 attempt, stopRequested, terminated, memErr, destroyBegun,
                 handlerLate, markEmitted, disconnected, discRun>>
  /\ UNCHANGED errorRef
  /\ destroyLog' = destroyLog \o <<"refs_released", "session_freed">>
  /\ UNCHANGED tunVars
  /\ UNCHANGED jniVars
  /\ UNCHANGED fnVars

\* --------------------------------------------- the worker and the engine
\* The engine delivers CONNECTED: event() calls setConnectedFromEvent,
\* whose first statement is session_->connected = true, without the mutex.
event_CONNECTED(w) ==
  /\ ~terminated /\ ~clientFreed
  /\ Running(w) /\ ~workers[w].inEvent
  /\ connected' = TRUE
  /\ markEmitted' = TRUE
  /\ workers' = [workers EXCEPT ![w].emitted = (w = attempt),
                                ![w].inEvent = TRUE]
  /\ apiObs' = NoCall
  /\ UNCHANGED <<connecting, should_stop, last_error, joinable, threadOf,
                 destroying_, callbacksSet, clientFreed, apiPc, attempt,
                 stopRequested, terminated, memErr, destroyBegun, handlerLate,
                 disconnected, discRun>>
  /\ UNCHANGED errorRef
  /\ UNCHANGED destroyLog
  /\ UNCHANGED tunVars
  /\ UNCHANGED jniVars
  /\ UNCHANGED fnVars

\* setConnectedFromEvent, the rest: lock state_mutex; connecting = false.
setConnectedFromEvent(w) ==
  /\ ~terminated /\ ~clientFreed
  /\ Running(w) /\ workers[w].inEvent
  /\ MutexFree
  /\ connecting' = FALSE
  /\ workers' = [workers EXCEPT ![w].inEvent = FALSE]
  /\ apiObs' = NoCall
  /\ UNCHANGED <<connected, should_stop, last_error, joinable, threadOf,
                 destroying_, callbacksSet, clientFreed, apiPc, attempt,
                 stopRequested, terminated, memErr, destroyBegun, handlerLate,
                 markEmitted, disconnected, discRun>>
  /\ UNCHANGED errorRef
  /\ UNCHANGED destroyLog
  /\ UNCHANGED tunVars
  /\ UNCHANGED jniVars
  /\ UNCHANGED fnVars

\* The guard of on_ip_assigned, on_dns_configured and notifyRouteCallback
HandlerGuard == ~destroying_ /\ callbacksSet

\* The engine delivers a configuration event (address, DNS, route) on the
\* worker thread; the client forwards it to the handler when the guard
\* holds.
event_config(w) ==
  /\ ~terminated /\ ~clientFreed
  /\ Running(w) /\ ~workers[w].inEvent
  /\ handlerLate' = (handlerLate \/ (HandlerGuard /\ destroyBegun))
  /\ apiObs' = [op |-> "handler", invoked |-> HandlerGuard]
  /\ UNCHANGED <<connected, connecting, should_stop, last_error, joinable,
                 threadOf, destroying_, callbacksSet, clientFreed, apiPc,
                 workers, attempt, stopRequested, terminated, memErr,
                 destroyBegun, markEmitted, disconnected, discRun>>
  /\ UNCHANGED errorRef
  /\ UNCHANGED destroyLog
  /\ UNCHANGED tunVars
  /\ UNCHANGED jniVars
  /\ UNCHANGED fnVars

\* error events the engine may deliver, with the fatal flag it gives them
ErrorEvents ==
  { [name |-> "AUTH_FAILED", fatal |-> TRUE],
    [name |-> "TRANSPORT_ERROR", fatal |-> TRUE],
    [name |-> "TRANSPORT_ERROR", fatal |-> FALSE] }

\* The engine delivers an error event on the worker thread: event() logs
\* its name, its info and its fatal flag.
event_error(w, evt) ==
  /\ ~terminated /\ ~clientFreed
  /\ Running(w) /\ ~workers[w].inEvent
  /\ apiObs' = [op |-> "event", name |-> evt.name, fatal |-> evt.fatal]
  /\ UNCHANGED <<connected, connecting, should_stop, last_error, joinable,
                 threadOf, destroying_, callbacksSet, clientFreed, apiPc,
                 workers, attempt, stopRequested, terminated, memErr,
                 destroyBegun, handlerLate, markEmitted, disconnected,
                 discRun>>
  /\ UNCHANGED errorRef
  /\ UNCHANGED destroyLog
  /\ UNCHANGED tunVars
  /\ UNCHANGED jniVars
  /\ UNCHANGED fnVars

\* A worker still inside the engine after the client was freed: every
\* access is to freed memory; whether the guard it reads lets the handler
\* run is not determined.
worker_after_free(w, invoked) ==
  /\ ~terminated /\ clientFreed
  /\ Running(w)
  /\ memErr' = TRUE
  /\ handlerLate' = (handlerLate \/ invoked)
  /\ workers' = [workers EXCEPT ![w].pc = "done", ![w].inEvent = FALSE]
  /\ apiObs' = [op |-> "handler", invoked |-> invoked]
  /\ UNCHANGED <<connected, connecting, should_stop, last_error, joinable,
                 threadOf, destroying_, callbacksSet, clientFreed, apiPc,
                 attempt, stopRequested, terminated, destroyBegun,
                 markEmitted, disconnected, discRun>>
  /\ UNCHANGED errorRef
  /\ UNCHANGED destroyLog
  /\ UNCHANGED tunVars
  /\ UNCHANGED jniVars
  /\ UNCHANGED fnVars

\* value the worker gives connected when connect() has returned
CompletionConnected(error) == ~error

\* a worker that calls client->connect() again after an error
WorkerAfterReturn_Retry(error) == IF error THEN "running" ELSE "done"

\* where the worker is after client->connect() has returned and the flags
\* are set: at the end of the thread function
WorkerAfterReturn(error) == "done"

\* The blocking client->connect() returns on the worker thread with
\* connectStatus.error = error; under the mutex: connecting = false,
\* connected = !error, last_error on error.
connection_thread_return(w, error) ==
  /\ ~terminated /\ ~clientFreed
  /\ Running(w) /\ ~workers[w].inEvent
  /\ MutexFree
  /\ connecting' = FALSE
  /\ connected' = CompletionConnected(error)
  /\ last_error' = IF error THEN EngineMessage ELSE last_error
  \* assigning to last_error frees or overwrites the buffer a caller of
  \* get_last_error() may still hold
  /\ errorRef' = IF error /\ errorRef.kind = "buffer"
                    THEN [errorRef EXCEPT !.stale = TRUE] ELSE errorRef
  /\ workers' = [workers EXCEPT
                   ![w].pc = WorkerAfterReturn(error),
                   ![w].calls = IF WorkerAfterReturn(error) = "running"
                                   THEN @ + 1 ELSE @]
  /\ apiObs' = NoCall
  /\ UNCHANGED <<should_stop, joinable, threadOf, destroying_, callbacksSet,
                 clientFreed, apiPc, attempt, stopRequested, terminated,
                 memErr, destroyBegun, handlerLate, markEmitted, disconnected,
                 discRun>>
  /\ UNCHANGED destroyLog
  /\ UNCHANGED tunVars
  /\ UNCHANGED jniVars
  /\ UNCHANGED fnVars

SessionSteps ==
  \/ \E withCallbacks \in BOOLEAN : set_tunnel_id_and_callback(withCallbacks)
  \/ disconnect_stop
  \/ disconnect_mark
  \/ is_connected
  \/ \E isNull, throws \in BOOLEAN : reconnectSession_entry(isNull, throws)
  \/ \E throws \in BOOLEAN : reconnectSession_rest(throws)
  \/ destroy_session
  \/ SessionDtor_stop
  \/ SessionDtor_join
  \/ ClientDtor_mark
  \/ ClientDtor_free
  \/ SessionDtor_refs
  \/ \E w \in Workers : event_CONNECTED(w)
  \/ \E w \in Workers : setConnectedFromEvent(w)
  \/ \E w \in Workers : event_config(w)
  \/ \E w \in Workers, evt \in ErrorEvents : event_error(w, evt)
  \/ \E w \in Workers, invoked \in BOOLEAN : worker_after_free(w, invoked)
  \/ \E w \in Workers, error \in BOOLEAN : connection_thread_return(w, error)

NextSession ==
  \/ \E outcome \in ConnectInputs : connect(outcome)
  \/ SessionSteps

\* the session with the reading of last_error
NextLastError ==
  \/ NextSession
  \/ get_last_error
  \/ \E seen \in StaleTexts : nativeGetLastError_copy(seen)

\* the session with every error return of connect()
NextConnect ==
  \/ \E outcome \in ConnectOutcomes : connect(outcome)
  \/ SessionSteps

\* ====================================================== registry part
\* openvpn_jni.cpp: the JNI entry points and the map from tunnel id to
\* session.  Several sessions exist side by side; each is kept as the
\* fields the entry points read and write.
JniThreads == {"binder_1", "binder_2"}

NoThread == "none"

TunnelIds == {"nordvpn_UK", "nordvpn_FR"}

\* a null jstring tunnelId
NoTunnel == "null"

\* the addresses new OpenVpnSession() can return; an address is handed out
\* again after its session was deleted
Handles == 1..MaxSessions

NoSession == 0

\* no session lives at the address
NoObject == [alive |-> FALSE]

\* OpenVpnSession() followed by set_tunnel_id_and_callback and a connect()
\* that started the worker
NewSession(id) ==
  [alive |-> TRUE, tunnel_id |-> id, connected |-> FALSE,
   connecting |-> TRUE, last_error |-> "", sent |-> 0]

\* the thread is in none of the JNI functions
ThreadIdle == [pc |-> "idle"]

NoLookup == [called |-> FALSE]

InitRegistry ==
  /\ sessions = [id \in TunnelIds |-> NoSession]
  /\ sessions_mutex = NoThread
  /\ jni = [t \in JniThreads |-> ThreadIdle]
  /\ pool = [h \in Handles |-> NoObject]
  /\ lookupObs = NoLookup

\* the thread is inside a call that was given the handle
UsingHandle(h) ==
  \E t \in JniThreads : jni[t].pc \in {"set_call", "set_lock", "set_locked"}
                        /\ jni[t].session = h

\* ----------------------------------------------------- nativeConnect()
\* create_session, set_tunnel_id_and_callback(tunnelId, null, null),
\* connect; a connect() that fails destroys the session again and 0 is
\* returned.  The session is not entered in the registry here.
nativeConnect(h, id, ok) ==
  /\ ~pool[h].alive
  /\ pool' = IF ok THEN [pool EXCEPT ![h] = NewSession(id)] ELSE pool
  /\ lookupObs' = NoLookup
  /\ UNCHANGED <<sessions, sessions_mutex, jni>>
  /\ UNCHANGED tunVars
  /\ UNCHANGED sessVars
  /\ UNCHANGED fnVars

\* ------------------------------------------ the session's worker thread
\* CONNECTED arrives: connected = true, connecting = false
session_connected(h) ==
  /\ pool[h].alive /\ pool[h].connecting
  /\ pool' = [pool EXCEPT ![h].connected = TRUE, ![h].connecting = FALSE]
  /\ lookupObs' = NoLookup
  /\ UNCHANGED <<sessions, sessions_mutex, jni>>
  /\ UNCHANGED tunVars
  /\ UNCHANGED sessVars
  /\ UNCHANGED fnVars

\* client->connect() returns with an error
session_failed(h) ==
  /\ pool[h].alive /\ (pool[h].connecting \/ pool[h].connected)
  /\ pool' = [pool EXCEPT ![h].connected = FALSE, ![h].connecting = FALSE,
                          ![h].last_error = EngineMessage]
  /\ lookupObs' = NoLookup
  /\ UNCHANGED <<sessions, sessions_mutex, jni>>
  /\ UNCHANGED tunVars
  /\ UNCHANGED sessVars
  /\ UNCHANGED fnVars

\* a packet is written to the session's channel
session_send(h) ==
  /\ pool[h].alive /\ pool[h].connected
  /\ pool[h].sent < MaxSent
  /\ pool' = [pool EXCEPT ![h].sent = @ + 1]
  /\ lookupObs' = NoLookup
  /\ UNCHANGED <<sessions, sessions_mutex, jni>>
  /\ UNCHANGED tunVars
  /\ UNCHANGED sessVars
  /\ UNCHANGED fnVars

\* --------------------------------------------------- nativeDisconnect()
\* openvpn_wrapper_disconnect(session); openvpn_wrapper_destroy_session(
\* session).  The registry is not touched.  The application does not
\* destroy a handle it is passing to another call.
nativeDisconnect(h) ==
  /\ pool[h].alive
  /\ ~UsingHandle(h)
  /\ pool' = [pool EXCEPT ![h] = NoObject]
  /\ lookupObs' = NoLookup
  /\ UNCHANGED <<sessions, sessions_mutex, jni>>
  /\ UNCHANGED tunVars
  /\ UNCHANGED sessVars
  /\ UNCHANGED fnVars

\* --------------------------------------- nativeSetTunnelIdAndCallback()
\* entry: the thread is about to call the wrapper
SetTunnel_enter(t, h, id) ==
  /\ jni[t].pc = "idle"
  /\ pool[h].alive
  /\ jni' = [jni EXCEPT ![t] = [pc |-> "set_call", id |-> id, session |-> h]]
  /\ lookupObs' = NoLookup
  /\ UNCHANGED <<sessions, sessions_mutex, pool>>
  /\ UNCHANGED tunVars
  /\ UNCHANGED sessVars
  /\ UNCHANGED fnVars

\* the key under which the session is entered
RegistryKey_Fixed(id) == "nordvpn_UK"

RegistryKey(id) == id

\* openvpn_wrapper_set_tunnel_id_and_callback(); a null tunnelId skips the
\* registration
SetTunnel_call(t) ==
  /\ jni[t].pc = "set_call"
  /\ pool' = IF jni[t].id # NoTunnel
               THEN [pool EXCEPT ![jni[t].session].tunnel_id = jni[t].id]
               ELSE pool
  /\ jni' = [jni EXCEPT ![t] = IF jni[t].id # NoTunnel
                                 THEN [@ EXCEPT !.pc = "set_lock"]
                                 ELSE ThreadIdle]
  /\ lookupObs' = NoLookup
  /\ UNCHANGED <<sessions, sessions_mutex>>
  /\ UNCHANGED tunVars
  /\ UNCHANGED sessVars
  /\ UNCHANGED fnVars

\* std::lock_guard<std::mutex> lock(sessions_mutex)
SetTunnel_lock(t) ==
  /\ jni[t].pc = "set_lock"
  /\ sessions_mutex = NoThread
  /\ sessions_mutex' = t
  /\ jni' = [jni EXCEPT ![t].pc = "set_locked"]
  /\ lookupObs' = NoLookup
  /\ UNCHANGED <<sessions, pool>>
  /\ UNCHANGED tunVars
  /\ UNCHANGED sessVars
  /\ UNCHANGED fnVars

\* sessions[tunnelIdStr] = session; the guard's scope ends
SetTunnel_insert(t) ==
  /\ jni[t].pc = "set_locked"
  /\ sessions' = [sessions EXCEPT ![RegistryKey(jni[t].id)] = jni[t].session]
  /\ sessions_mutex' = NoThread
  /\ jni' = [jni EXCEPT ![t] = ThreadIdle]
  /\ lookupObs' = NoLookup
  /\ UNCHANGED pool
  /\ UNCHANGED tunVars
  /\ UNCHANGED sessVars
  /\ UNCHANGED fnVars

\* ----------------------------------------------------------- getAppFd()
\* std::lock_guard<std::mutex> lock(sessions_mutex), in a block of its own
GetAppFd_lock(t, id) ==
  /\ jni[t].pc = "idle"
  /\ sessions_mutex = NoThread
  /\ sessions_mutex' = t
  /\ jni' = [jni EXCEPT ![t] = [pc |-> "get_locked", id |-> id,
                                session |-> NoSession]]
  /\ lookupObs' = NoLookup
  /\ UNCHANGED <<sessions, pool>>
  /\ UNCHANGED tunVars
  /\ UNCHANGED sessVars
  /\ UNCHANGED fnVars

\* the guard living until getAppFd returns
LookupHolds_ToReturn(t) == t

\* Who holds sessions_mutex once thread t's lookup block has ended.
LookupHolds(t) == NoThread

\* sessions.find(tunnelIdStr); session = it->second; the block ends.
\* -1 is returned when there is no entry or the pointer is null.
GetAppFd_find(t) ==
  /\ jni[t].pc = "get_locked"
  /\ LET s == sessions[jni[t].id]
     IN /\ lookupObs' = [called |-> TRUE, id |-> jni[t].id, session |-> s,
                         live |-> s # NoSession /\ pool[s].alive]
        /\ jni' = [jni EXCEPT ![t] = IF s = NoSession THEN ThreadIdle
                           ELSE [@ EXCEPT !.pc = "get_call", !.session = s]]
        /\ sessions_mutex' = IF s = NoSession THEN NoThread
                                              ELSE LookupHolds(t)
  /\ UNCHANGED <<sessions, pool>>
  /\ UNCHANGED tunVars
  /\ UNCHANGED sessVars
  /\ UNCHANGED fnVars

\* openvpn_wrapper_get_app_fd(session) and the return
GetAppFd_call(t) ==
  /\ jni[t].pc = "get_call"
  /\ jni' = [jni EXCEPT ![t] = ThreadIdle]
  /\ sessions_mutex' = IF sessions_mutex = t THEN NoThread
                                             ELSE sessions_mutex
  /\ lookupObs' = NoLookup
  /\ UNCHANGED <<sessions, pool>>
  /\ UNCHANGED tunVars
  /\ UNCHANGED sessVars
  /\ UNCHANGED fnVars

\* nativeSetTunnelIdAndCallback() from entry to return, run by a thread
\* that nothing interleaves with
nativeSetTunnelIdAndCallback(h, id) ==
  /\ pool[h].alive
  /\ sessions_mutex = NoThread
  /\ pool' = IF id # NoTunnel THEN [pool EXCEPT ![h].tunnel_id = id]
                              ELSE pool
  /\ sessions' = IF id # NoTunnel
                   THEN [sessions EXCEPT ![RegistryKey(id)] = h]
                   ELSE sessions
  /\ lookupObs' = NoLookup
  /\ UNCHANGED <<sessions_mutex, jni>>
  /\ UNCHANGED tunVars
  /\ UNCHANGED sessVars
  /\ UNCHANGED fnVars

\* the registry and its lock, with the entry points as the steps of the
\* threads that run them
NextRegistry ==
  \/ \E h \in Handles, id \in TunnelIds, ok \in BOOLEAN :
        nativeConnect(h, id, ok)
  \/ \E h \in Handles : nativeDisconnect(h)
  \/ \E t \in JniThreads, h \in Handles, id \in TunnelIds \cup {NoTunnel} :
        SetTunnel_enter(t, h, id)
  \/ \E t \in JniThreads : SetTunnel_call(t)
  \/ \E t \in JniThreads : SetTunnel_lock(t)
  \/ \E t \in JniThreads : SetTunnel_insert(t)
  \/ \E t \in JniThreads, id \in TunnelIds : GetAppFd_lock(t, id)
  \/ \E t \in JniThreads : GetAppFd_find(t)
  \/ \E t \in JniThreads : GetAppFd_call(t)

\* ========================================================= route part
\* custom_tun_client.h: the prefix length reported for a pushed route.
\* A netmask is kept as the numbers between its dots; inet_pton accepts
\* four numbers of 0..255.
Pow2(n) == 2 ^ n

OctetValues == {0, 1, 128, 192, 224, 240, 248, 252, 254, 255, 256}

Netmasks ==
  { <<a, b, c, d>> : a \in OctetValues, b \in OctetValues,
                     c \in OctetValues, d \in OctetValues }
  \cup { << >>, <<255, 255, 255>> }

RouteAddrs == {"10.8.0.0", "fd00:8::"}

RouteInputs == [addr : RouteAddrs, netmask : Netmasks]

NoRoute == [called |-> FALSE]

\* inet_pton(AF_INET, ...) == 1
InetPtonOk(netmask) ==
  Len(netmask) = 4 /\ \A i \in 1..4 : netmask[i] \in 0..255

\* (mask >> i) & 1U, with mask = ntohl(addr.s_addr): the first number of
\* the netmask holds bits 31..24, the last bits 7..0
BitSet(mask, i) == (mask[4 - (i \div 8)] \div Pow2(i % 8)) % 2 = 1

\* for (int i = 31; i >= 0; --i): count the one-bits, -1 as soon as a
\* one-bit follows a zero-bit
RECURSIVE ScanBits(_, _, _, _)
ScanBits(mask, i, prefix, zero_seen) ==
  IF i < 0 THEN prefix
  ELSE IF BitSet(mask, i)
         THEN (IF zero_seen THEN -1
                            ELSE ScanBits(mask, i - 1, prefix + 1, zero_seen))
         ELSE ScanBits(mask, i - 1, prefix, TRUE)

\* the one-bits counted wherever they are
netmask_to_prefix_CountOnes(netmask) ==
  IF ~InetPtonOk(netmask) THEN -1
  ELSE Cardinality({i \in 0..31 : BitSet(netmask, i)})

netmask_to_prefix(netmask) ==
  IF ~InetPtonOk(netmask) THEN -1
  ELSE ScanBits(netmask, 31, 0, FALSE)

\* route_addr.find(':') != npos
IsIpv6(addr) == addr = "fd00:8::"

\* the prefix_len extract_tun_config hands to on_route_pushed
RoutePrefix(r) ==
  IF r.netmask # << >> /\ ~IsIpv6(r.addr)
    THEN (IF netmask_to_prefix(r.netmask) < 0 THEN 32
                                              ELSE netmask_to_prefix(r.netmask))
    ELSE (IF IsIpv6(r.addr) THEN 128 ELSE 32)

\* ======================================================== buffer part
\* custom_tun_client.h, handle_read: the buffer an outbound packet is put
\* in before parent_.tun_recv; a buffer is [capacity, offset, size] with
\* payload the index of the packet's first byte and error what was thrown.
HeaderSizes == {1, 25, MaxOverhead, Headroom, Headroom + 1}

\* BufferAllocated buf(capacity, CONSTRUCT_ZERO)
BufferAllocated(capacity) ==
  [capacity |-> capacity, offset |-> 0, size |-> 0, payload |-> 0,
   error |-> "none"]

\* init_headroom that leaves the offset at the start of the storage
init_headroom_None(b, headroom) == [b EXCEPT !.size = 0]

\* buf.init_headroom(headroom)
init_headroom(b, headroom) == [b EXCEPT !.offset = headroom, !.size = 0]

\* buf.write_alloc(len): room for len bytes behind the data, an exception
\* when the storage ends before
write_alloc(b, len) ==
  IF b.offset + b.size + len > b.capacity
    THEN [b EXCEPT !.error = "buffer_full"]
    ELSE [b EXCEPT !.payload = b.offset + b.size, !.size = b.size + len]

\* the engine putting len bytes of header in front of the data: the offset
\* moves back, an exception when the headroom is smaller; the storage is
\* never reallocated
prepend_alloc(b, len) ==
  IF b.offset < len
    THEN [b EXCEPT !.error = "buffer_push_front_headroom"]
    ELSE [b EXCEPT !.offset = b.offset - len, !.size = b.size + len]

\* the buffer handle_read hands to parent_.tun_recv for bytes_read bytes
IntakeBuffer(bytes_read) ==
  write_alloc(init_headroom(BufferAllocated(Headroom + bytes_read + Tailroom),
                            Headroom),
              bytes_read)

\* ================================================= configuration part
\* openvpn_wrapper.cpp, connect(): the rewriting of the configuration text
\* before it is handed to the engine.  The text is its lines, a line is
\* its words; find() of a directive in the text is the search for a line
\* that has the directive among its words.
ConfigLines ==
  { <<"remote", "uk.example", "1194">>,
    <<"ping-timer-rem">>,
    <<"remote-random">>,
    <<"fast-io">>,
    <<"auth-user-pass">>,
    <<"auth-user-pass", "creds.txt">>,
    <<"#", "auth-user-pass">>,
    <<"auth", "SHA512">>,
    <<"#", "auth", "SHA512">>,
    <<"verb", "3">> }

ConfigTexts ==
  [lines : UNION { [1..n -> ConfigLines] : n \in 0..MaxLines },
   eol : BOOLEAN]

\* unsupported_options, in the order of the vector
UnsupportedOptions == <<"ping-timer-rem", "remote-random", "fast-io">>

Contains(line, word) == \E i \in 1..Len(line) : line[i] = word

\* config_content.find(word) != npos
Found(text, word) ==
  \E k \in 1..Len(text.lines) : Contains(text.lines[k], word)

\* the line of the first occurrence
FirstLine(text, word) ==
  CHOOSE k \in 1..Len(text.lines) :
      /\ Contains(text.lines[k], word)
      /\ \A j \in 1..(k - 1) : ~Contains(text.lines[j], word)

\* the while loop of one unsupported option: every line holding it is
\* erased together with its newline
EraseLines(text, word) ==
  LET Keep(line) == ~Contains(line, word)
      kept == SelectSeq(text.lines, Keep)
  IN [lines |-> kept,
      eol |-> IF kept = << >> THEN TRUE
              ELSE IF Contains(text.lines[Len(text.lines)], word) THEN TRUE
              ELSE text.eol]

RECURSIVE StripFrom(_, _)
StripFrom(text, i) ==
  IF i > Len(UnsupportedOptions) THEN text
  ELSE StripFrom(EraseLines(text, UnsupportedOptions[i]), i + 1)

\* config_content += "\n" + line + "\n"
AppendLine(text, line) ==
  [lines |-> IF text.eol THEN text.lines \o << << >>, line >>
                         ELSE text.lines \o << line >>,
   eol |-> TRUE]

\* config_content.replace(line_start, line_end - line_start, line + "\n")
ReplaceLine(text, k, line) ==
  [lines |-> [text.lines EXCEPT ![k] = line],
   eol |-> IF k = Len(text.lines) THEN TRUE ELSE text.eol]

\* auth-user-pass: added when absent; otherwise the line of the first
\* occurrence is replaced (the loop ends with break)
EnsureAuthUserPass(text) ==
  IF ~Found(text, "auth-user-pass")
    THEN AppendLine(text, <<"auth-user-pass">>)
    ELSE ReplaceLine(text, FirstLine(text, "auth-user-pass"),
                     <<"auth-user-pass">>)

\* find("auth "): a word auth that another word follows
HasAuthSpace(line) ==
  \E i \in 1..(Len(line) - 1) : line[i] = "auth"

\* config_content.insert(pos, "client-cert-not-required\n") at the first
\* "auth ": the line is cut in front of the word
InsertBeforeAuth(text) ==
  LET k == CHOOSE k \in 1..Len(text.lines) :
              /\ HasAuthSpace(text.lines[k])
              /\ \A j \in 1..(k - 1) : ~HasAuthSpace(text.lines[j])
      line == text.lines[k]
      i == CHOOSE i \in 1..(Len(line) - 1) :
              /\ line[i] = "auth"
              /\ \A j \in 1..(i - 1) : line[j] # "auth"
  IN [text EXCEPT !.lines =
        SubSeq(text.lines, 1, k - 1)
          \o << SubSeq(line, 1, i - 1) \o <<"client-cert-not-required">>,
                SubSeq(line, i, Len(line)) >>
          \o SubSeq(text.lines, k + 1, Len(text.lines))]

EnsureClientCert(text) ==
  IF Found(text, "client-cert-not-required") THEN text
  ELSE IF \E k \in 1..Len(text.lines) : HasAuthSpace(text.lines[k])
    THEN InsertBeforeAuth(text)
    ELSE AppendLine(text, <<"client-cert-not-required">>)

\* find("verb "): a word verb that another word follows
HasVerbSpace(line) ==
  \E i \in 1..(Len(line) - 1) : line[i] = "verb"

SetVerb(text) ==
  IF \E k \in 1..Len(text.lines) : HasVerbSpace(text.lines[k])
    THEN ReplaceLine(text,
                     CHOOSE k \in 1..Len(text.lines) :
                        /\ HasVerbSpace(text.lines[k])
                        /\ \A j \in 1..(k - 1) : ~HasVerbSpace(text.lines[j]),
                     <<"verb", "5">>)
    ELSE AppendLine(text, <<"verb", "5">>)

\* session->config.content
NormalizeConfig(text) ==
  SetVerb(EnsureClientCert(EnsureAuthUserPass(StripFrom(text, 1))))

\* ======================================================= handler part
\* openvpn_wrapper.cpp: the application's IP handler of one session, from
\* its registration to the call the worker thread makes on it.  A handler
\* reference is the number NewGlobalRef returned for it.
MaxRefs == 2      \* NewGlobalRef calls made for the IP handler

NoHandler == 0

NoDispatch == [called |-> FALSE]

\* create_session: OpenVpnSession() and AndroidOpenVPNClient()
InitHandlers ==
  /\ tunnelId = "" /\ ipAddressCallback = NoHandler
  /\ tunnelId_ = "" /\ ipAddressCallback_ = NoHandler
  /\ tunnel_id_ = ""
  /\ globalRefs = {} /\ nextRef = 1
  /\ setPc = "idle" /\ tunPc = "idle"
  /\ heldRef = NoHandler
  /\ registered = FALSE /\ idAtConnect = FALSE
  /\ ipObs = NoDispatch

\* The global references after the handler old was replaced by new:
\* DeleteGlobalRef(session->ipAddressCallback) when it is not null, then
\* NewGlobalRef(ipCallback).
RefsAfterReplace(refs, old, new) == (refs \ {old}) \cup {new}

\* openvpn_wrapper_set_tunnel_id_and_callback up to the call of
\* updateSessionCallbackInfo.  id: the tunnelId passed (NoTunnel: null);
\* withIp: an ipCallback is passed.  The client's copy of the handler is
\* not written here.
set_callback_store(id, withIp) ==
  /\ setPc = "idle"
  /\ withIp => nextRef <= MaxRefs
  /\ tunnelId' = IF id # NoTunnel THEN id ELSE tunnelId
  /\ tunnelId_' = IF id # NoTunnel THEN id ELSE tunnelId_
  /\ IF withIp
       THEN /\ globalRefs' = RefsAfterReplace(globalRefs, ipAddressCallback,
                                              nextRef)
            /\ ipAddressCallback' = nextRef
            /\ nextRef' = nextRef + 1
       ELSE UNCHANGED <<globalRefs, ipAddressCallback, nextRef>>
  /\ setPc' = "stored"
  /\ UNCHANGED <<ipAddressCallback_, tunnel_id_, tunPc, heldRef, registered,
                 idAtConnect, ipObs>>
  /\ UNCHANGED pureVars
  /\ UNCHANGED pipeVars
  /\ UNCHANGED progVars

\* AndroidOpenVPNClient::updateSessionCallbackInfo, and the return of
\* openvpn_wrapper_set_tunnel_id_and_callback
updateSessionCallbackInfo ==
  /\ setPc = "stored"
  /\ ipAddressCallback_' = ipAddressCallback
  /\ tunnelId_' = tunnelId
  /\ registered' = (registered \/ ipAddressCallback # NoHandler)
  /\ setPc' = "idle"
  /\ UNCHANGED <<tunnelId, ipAddressCallback, tunnel_id_, globalRefs, nextRef,
                 tunPc, heldRef, idAtConnect, ipObs>>
  /\ UNCHANGED pureVars
  /\ UNCHANGED pipeVars
  /\ UNCHANGED progVars

\* openvpn_wrapper_connect: androidClient->setSession(session), then the
\* worker thread is started
setSession ==
  /\ setPc = "idle" /\ tunPc = "idle"
  /\ ipAddressCallback_' = ipAddressCallback
  /\ tunnelId_' = tunnelId
  /\ idAtConnect' = (tunnelId # "")
  /\ tunPc' = "connecting"
  /\ UNCHANGED <<tunnelId, ipAddressCallback, tunnel_id_, globalRefs, nextRef,
                 setPc, heldRef, registered, ipObs>>
  /\ UNCHANGED pureVars
  /\ UNCHANGED pipeVars
  /\ UNCHANGED progVars

\* On the worker: new_tun_factory builds CustomTunClientFactory(tunnelId_,
\* this), and new_tun_client_obj hands the factory's tunnel_id_ on to the
\* adapter.
new_tun_factory_id ==
  /\ tunPc = "connecting"
  /\ tunnel_id_' = tunnelId_
  /\ tunPc' = "factory"
  /\ UNCHANGED <<tunnelId, ipAddressCallback, tunnelId_, ipAddressCallback_,
                 globalRefs, nextRef, setPc, heldRef, registered, idAtConnect,
                 ipObs>>
  /\ UNCHANGED pureVars
  /\ UNCHANGED pipeVars
  /\ UNCHANGED progVars

\* on_ip_assigned forwarding whenever the tunnel id is set
IpHandlerGuard_AnyHandler(cb, tunnel_id) == tunnel_id # ""

\* The condition of on_ip_assigned, on a client that is not being
\* destroyed: ipAddressCallback_ && sessionJavaVM_ && !tunnel_id.empty();
\* sessionJavaVM_ is copied together with the handler and is set whenever
\* the handler is.
IpHandlerGuard(cb, tunnel_id) == cb # NoHandler /\ tunnel_id # ""

\* tun_start, extract_tun_config: the ifconfig option is found and
\* callback_->on_ip_assigned(tunnel_id_, vpn_ip4_, prefix_len) is called;
\* on_ip_assigned evaluates its condition.
on_ip_assigned_guard ==
  /\ tunPc = "factory"
  /\ IF IpHandlerGuard(ipAddressCallback_, tunnel_id_)
       THEN /\ heldRef' = ipAddressCallback_
            /\ tunPc' = "in_handler"
            /\ UNCHANGED ipObs
       ELSE /\ tunPc' = "started"
            /\ ipObs' = [called |-> TRUE, invoked |-> FALSE,
                         registered |-> registered,
                         idAtConnect |-> idAtConnect]
            /\ UNCHANGED heldRef
  /\ UNCHANGED <<tunnelId, ipAddressCallback, tunnelId_, ipAddressCallback_,
                 tunnel_id_, globalRefs, nextRef, setPc, registered,
                 idAtConnect>>
  /\ UNCHANGED pureVars
  /\ UNCHANGED pipeVars
  /\ UNCHANGED progVars

\* on_ip_assigned, the rest: GetObjectClass(ipAddressCallback_) and
\* CallVoidMethod(ipAddressCallback_, ...).  The member is read without
\* synchronisation; reread: the call uses what the member holds now,
\* otherwise what the condition read.
on_ip_assigned_call(reread) ==
  /\ tunPc = "in_handler"
  /\ LET ref == IF reread THEN ipAddressCallback_ ELSE heldRef
     IN ipObs' = [called |-> TRUE, invoked |-> TRUE, ref |-> ref,
                  live |-> ref \in globalRefs,
                  registered |-> registered, idAtConnect |-> idAtConnect]
  /\ heldRef' = NoHandler
  /\ tunPc' = "started"
  /\ UNCHANGED <<tunnelId, ipAddressCallback, tunnelId_, ipAddressCallback_,
                 tunnel_id_, globalRefs, nextRef, setPc, registered,
                 idAtConnect>>
  /\ UNCHANGED pureVars
  /\ UNCHANGED pipeVars
  /\ UNCHANGED progVars

NextHandlers ==
  \/ \E id \in TunnelIds \cup {NoTunnel}, withIp \in BOOLEAN :
        set_callback_store(id, withIp)
  \/ updateSessionCallbackInfo
  \/ setSession
  \/ new_tun_factory_id
  \/ on_ip_assigned_guard
  \/ \E reread \in BOOLEAN : on_ip_assigned_call(reread)

\* ========================================================== pipe part
\* openvpn_jni.cpp: createPipe, getPipeWriteFd and getPipeReadFd on the
\* global map tunnel_sockets, called from several threads.  Every call
\* takes sockets_mutex with a lock_guard before it touches the map and
\* holds it until it returns.
MaxPipeThreads == 2    \* threads calling the pipe functions
MaxPairs == 3          \* socket pairs socketpair() hands out

PipeThreads == 1..MaxPipeThreads

PipeOps == {"createPipe", "getPipeWriteFd", "getPipeReadFd"}

NoPipeCall == [pc |-> "idle"]

\* the empty std::map
NoPairs == [k \in {} |-> 0]

\* the static map and mutex before any call
InitPipes ==
  /\ tunnel_sockets = NoPairs
  /\ sockets_mutex = 0
  /\ pipeCalls = [t \in PipeThreads |-> NoPipeCall]
  /\ socketsCreated = {}
  /\ nextPipeFd = 0

\* a lock_guard that does not wait for the holder
MayLockSockets_NoExclusion(holder) == TRUE

\* std::lock_guard<std::mutex> lock(sockets_mutex) goes on when no thread
\* holds the mutex
MayLockSockets(holder) == holder = 0

\* tunnel_sockets.find(id) != tunnel_sockets.end()
HasPair(id) == id \in DOMAIN tunnel_sockets

\* tunnel_sockets[id] = sockPair
WithPair(map, id, pair) ==
  [k \in DOMAIN map \cup {id} |-> IF k = id THEN pair ELSE map[k]]

\* The entry of a pipe function up to the lock.  id: the tunnelId passed
\* (NoTunnel: null); utfOk: GetStringUTFChars returned the characters.
\* Without an id string the call returns -1 and never takes the mutex.
pipe_call(t, op, id, utfOk) ==
  /\ pipeCalls[t].pc = "idle"
  /\ pipeCalls' = [pipeCalls EXCEPT ![t] =
        IF id = NoTunnel \/ ~utfOk
          THEN [pc |-> "done", op |-> op, id |-> NoTunnel, ret |-> -1]
          ELSE [pc |-> "wait", op |-> op, id |-> id]]
  /\ UNCHANGED <<tunnel_sockets, sockets_mutex, socketsCreated, nextPipeFd>>
  /\ UNCHANGED <<pureVars, cbVars>>
  /\ UNCHANGED progVars

\* std::lock_guard<std::mutex> lock(sockets_mutex)
pipe_lock(t) ==
  /\ pipeCalls[t].pc = "wait"
  /\ MayLockSockets(sockets_mutex)
  /\ sockets_mutex' = t
  /\ pipeCalls' = [pipeCalls EXCEPT ![t].pc = "locked"]
  /\ UNCHANGED <<tunnel_sockets, socketsCreated, nextPipeFd>>
  /\ UNCHANGED <<pureVars, cbVars>>
  /\ UNCHANGED progVars

\* createPipe: the lookup.  A pair that exists is returned (its
\* openvpnFd) and the lock_guard releases the mutex.
createPipe_find(t) ==
  /\ pipeCalls[t].pc = "locked"
  /\ pipeCalls[t].op = "createPipe"
  /\ LET c == pipeCalls[t]
     IN IF HasPair(c.id)
          THEN /\ pipeCalls' = [pipeCalls EXCEPT ![t] =
                    [pc |-> "done", op |-> c.op, id |-> c.id,
                     ret |-> tunnel_sockets[c.id].openvpnFd]]
               /\ sockets_mutex' = 0
          ELSE /\ pipeCalls' = [pipeCalls EXCEPT ![t].pc = "make"]
               /\ UNCHANGED sockets_mutex
  /\ UNCHANGED <<tunnel_sockets, socketsCreated, nextPipeFd>>
  /\ UNCHANGED <<pureVars, cbVars>>
  /\ UNCHANGED progVars

\* createPipe: socketpair(AF_UNIX, SOCK_SEQPACKET, 0, sockets).  sockOk:
\* the call succeeded; on failure -1 is returned and nothing is stored.
createPipe_socketpair(t, sockOk) ==
  /\ pipeCalls[t].pc = "make"
  /\ sockOk => Cardinality(socketsCreated) < MaxPairs
  /\ LET c == pipeCalls[t]
         pair == [openvpnFd |-> nextPipeFd, kotlinFd |-> nextPipeFd + 1]
     IN IF sockOk
          THEN /\ socketsCreated' = socketsCreated \cup
                                      {[id |-> c.id, pair |-> pair]}
               /\ nextPipeFd' = nextPipeFd + 2
               /\ pipeCalls' = [pipeCalls EXCEPT ![t] =
                    [pc |-> "insert", op |-> c.op, id |-> c.id,
                     pair |-> pair]]
               /\ UNCHANGED sockets_mutex
          ELSE /\ pipeCalls' = [pipeCalls EXCEPT ![t] =
                    [pc |-> "done", op |-> c.op, id |-> c.id, ret |-> -1]]
               /\ sockets_mutex' = 0
               /\ UNCHANGED <<socketsCreated, nextPipeFd>>
  /\ UNCHANGED tunnel_sockets
  /\ UNCHANGED <<pureVars, cbVars>>
  /\ UNCHANGED progVars

\* createPipe: tunnel_sockets[tunnelIdStr] = sockPair; return
\* sockPair.openvpnFd
createPipe_insert(t) ==
  /\ pipeCalls[t].pc = "insert"
  /\ LET c == pipeCalls[t]
     IN /\ tunnel_sockets' = WithPair(tunnel_sockets, c.id, c.pair)
        /\ pipeCalls' = [pipeCalls EXCEPT ![t] =
             [pc |-> "done", op |-> c.op, id |-> c.id,
              ret |-> c.pair.openvpnFd]]
  /\ sockets_mutex' = 0
  /\ UNCHANGED <<socketsCreated, nextPipeFd>>
  /\ UNCHANGED <<pureVars, cbVars>>
  /\ UNCHANGED progVars

\* getPipeWriteFd under the mutex, and getPipeReadFd, which calls it:
\* the kotlinFd of the entry, or -1 when find() reaches end()
getPipeWriteFd_find(t) ==
  /\ pipeCalls[t].pc = "locked"
  /\ pipeCalls[t].op \in {"getPipeWriteFd", "getPipeReadFd"}
  /\ LET c == pipeCalls[t]
     IN pipeCalls' = [pipeCalls EXCEPT ![t] =
          [pc |-> "done", op |-> c.op, id |-> c.id,
           ret |-> IF HasPair(c.id) THEN tunnel_sockets[c.id].kotlinFd
                                    ELSE -1]]
  /\ sockets_mutex' = 0
  /\ UNCHANGED <<tunnel_sockets, socketsCreated, nextPipeFd>>
  /\ UNCHANGED <<pureVars, cbVars>>
  /\ UNCHANGED progVars

\* the caller has the returned value and may call again
pipe_return(t) ==
  /\ pipeCalls[t].pc = "done"
  /\ pipeCalls' = [pipeCalls EXCEPT ![t] = NoPipeCall]
  /\ UNCHANGED <<tunnel_sockets, sockets_mutex, socketsCreated, nextPipeFd>>
  /\ UNCHANGED <<pureVars, cbVars>>
  /\ UNCHANGED progVars

NextPipes ==
  \/ \E t \in PipeThreads, op \in PipeOps, id \in TunnelIds \cup {NoTunnel},
         utfOk \in BOOLEAN : pipe_call(t, op, id, utfOk)
  \/ \E t \in PipeThreads : pipe_lock(t)
  \/ \E t \in PipeThreads : createPipe_find(t)
  \/ \E t \in PipeThreads, sockOk \in BOOLEAN : createPipe_socketpair(t, sockOk)
  \/ \E t \in PipeThreads : createPipe_insert(t)
  \/ \E t \in PipeThreads : getPipeWriteFd_find(t)
  \/ \E t \in PipeThreads : pipe_return(t)

\* no buffer has been built
NoBuffer == [capacity |-> 0]

InitIdle ==
  /\ route = [addr |-> "10.8.0.0", netmask |-> << >>]
  /\ routeObs = NoRoute
  /\ pktSize = 1 /\ hdrSize = 1
  /\ buf = NoBuffer
  /\ config_content = [lines |-> << >>, eol |-> TRUE]
  /\ configStage = "raw"
  /\ InitHandlers
  /\ InitPipes

\* extract_tun_config reaches the route option: callback_->on_route_pushed
on_route_pushed ==
  /\ ~routeObs.called
  /\ routeObs' = [called |-> TRUE, prefix_len |-> RoutePrefix(route),
                  is_ipv6 |-> IsIpv6(route.addr)]
  /\ UNCHANGED <<route, pktSize, hdrSize, buf, config_content, configStage>>
  /\ UNCHANGED cbVars
  /\ UNCHANGED pipeVars
  /\ UNCHANGED progVars

NextRoutes == on_route_pushed

\* handle_read, !error && bytes_read > 0: build the buffer and copy the
\* packet into it
handle_read_buffer ==
  /\ buf = NoBuffer
  /\ buf' = IntakeBuffer(pktSize)
  /\ UNCHANGED <<route, routeObs, pktSize, hdrSize, config_content,
                 configStage>>
  /\ UNCHANGED cbVars
  /\ UNCHANGED pipeVars
  /\ UNCHANGED progVars

\* parent_.tun_recv(buf): the engine prepends its header
tun_recv_prepend ==
  /\ buf # NoBuffer /\ buf.error = "none"
  /\ buf.size = pktSize
  /\ buf' = prepend_alloc(buf, hdrSize)
  /\ UNCHANGED <<route, routeObs, pktSize, hdrSize, config_content,
                 configStage>>
  /\ UNCHANGED cbVars
  /\ UNCHANGED pipeVars
  /\ UNCHANGED progVars

NextBuffer == handle_read_buffer \/ tun_recv_prepend

\* connect(): config_content goes from config_str to what is stored in
\* session->config.content
normalize_config ==
  /\ configStage = "raw"
  /\ config_content' = NormalizeConfig(config_content)
  /\ configStage' = "normalized"
  /\ UNCHANGED <<route, routeObs, pktSize, hdrSize, buf>>
  /\ UNCHANGED cbVars
  /\ UNCHANGED pipeVars
  /\ UNCHANGED progVars

NextConfig == normalize_config

\* several sessions side by side, every entry point run as a whole
NextTunnels ==
  \/ \E h \in Handles, id \in TunnelIds, ok \in BOOLEAN :
        nativeConnect(h, id, ok)
  \/ \E h \in Handles : session_connected(h)
  \/ \E h \in Handles : session_failed(h)
  \/ \E h \in Handles : session_send(h)
  \/ \E h \in Handles : nativeDisconnect(h)
  \/ \E h \in Handles, id \in TunnelIds \cup {NoTunnel} :
        nativeSetTunnelIdAndCallback(h, id)

Init == InitTun /\ InitSession /\ InitRegistry /\ InitIdle

SpecTun == Init /\ [][NextTun]_vars

InitClient == InitFactory /\ InitSession /\ InitRegistry /\ InitIdle

SpecFactory == InitClient /\ [][NextFactory]_vars

SpecSession == Init /\ [][NextSession]_vars

SpecConnect == Init /\ [][NextConnect]_vars

SpecLastError == Init /\ [][NextLastError]_vars

SpecRegistry == Init /\ [][NextRegistry]_vars

SpecTunnels == Init /\ [][NextTunnels]_vars

SpecHandlers == Init /\ [][NextHandlers]_vars

SpecPipes == Init /\ [][NextPipes]_vars

\* every route option the engine may hand over
InitRoutes ==
  /\ InitTun /\ InitSession /\ InitRegistry
  /\ route \in RouteInputs
  /\ routeObs = NoRoute
  /\ pktSize = 1 /\ hdrSize = 1
  /\ buf = NoBuffer
  /\ config_content = [lines |-> << >>, eol |-> TRUE]
  /\ configStage = "raw"
  /\ InitHandlers
  /\ InitPipes

SpecRoutes == InitRoutes /\ [][NextRoutes]_vars

\* every packet length a read into the 2048-byte array can give, every
\* header size tried
InitBuffer ==
  /\ InitTun /\ InitSession /\ InitRegistry
  /\ route = [addr |-> "10.8.0.0", netmask |-> << >>]
  /\ routeObs = NoRoute
  /\ pktSize \in 1..ReadBufSize
  /\ hdrSize \in HeaderSizes
  /\ buf = NoBuffer
  /\ config_content = [lines |-> << >>, eol |-> TRUE]
  /\ configStage = "raw"
  /\ InitHandlers
  /\ InitPipes

SpecBuffer == InitBuffer /\ [][NextBuffer]_vars

\* every configuration text of up to MaxLines lines
InitConfig ==
  /\ InitTun /\ InitSession /\ InitRegistry
  /\ route = [addr |-> "10.8.0.0", netmask |-> << >>]
  /\ routeObs = NoRoute
  /\ pktSize = 1 /\ hdrSize = 1
  /\ buf = NoBuffer
  /\ config_content \in ConfigTexts
  /\ configStage = "raw"
  /\ InitHandlers
  /\ InitPipes

SpecConfig == InitConfig /\ [][NextConfig]_vars

\* The application thread is scheduled: once inside disconnect() it runs on
\* (the only wait is a sleep of 100 ms).  Nothing is assumed of the engine
\* or the worker.
SpecSessionFair == SpecSession /\ WF_vars(disconnect_mark)

\* =================================================== properties, SpecTun
Whole(read, written) ==
  \A i \in 1..Len(read) : \E j \in 1..Len(written) : read[i] = written[j]

InOrder(read, d) ==
  /\ \A i \in 1..Len(read) : read[i].dir = d
  /\ \A i, j \in 1..Len(read) : i < j => read[i].id < read[j].id

\* C1: every packet of length 1..MTU written on one end of the channel is
\* returned whole by the read that takes it on the other end: what a read
\* returns is always one of the packets written, never a part of one.
C1_PacketBoundary ==
  /\ Whole(libRead, appWritten)
  /\ Whole(appRead, libSent)

\* C2: packets are delivered FIFO per direction: the engine end reads only
\* packets the application wrote, in write order; the application end reads
\* only packets tun_send wrote, in write order; neither direction delivers
\* a packet of the other.
C2_FifoPerDirection ==
  /\ InOrder(libRead, "out")
  /\ InOrder(appRead, "in")

C2_Witness ==
  /\ Len(libRead) >= 2
  /\ Len(appRead) >= 1

\* C8: a tun_send called after stop() returns false and performs no write.
C8_NoSendAfterStop ==
  (sendObs.called /\ sendObs.afterStop) => (~sendObs.ret /\ ~sendObs.wrote)

C8_Witness ==
  /\ sendObs.called /\ sendObs.afterStop
  /\ lib_fd_ >= 0

CurrentEmitted == attempt > 0 /\ workers[attempt].emitted

\* C3: once openvpn_wrapper_destroy_session has begun, no handler of the
\* application is invoked any more, whatever the worker thread delivers.
C3_NoHandlerAfterDestroy == ~handlerLate

\* C4: an is_connected() call made after disconnect() has returned (and
\* before any new connect()) returns false.
C4_DisconnectedStays ==
  (apiObs.op = "is_connected" /\ disconnected) => apiObs.ret = 0

\* C5: at most one connect attempt is in flight: never two workers inside
\* the engine, and a connect() on a session that is connecting or connected
\* is rejected instead of launching a worker or replacing the thread.
C5_SingleAttempt ==
  /\ Cardinality({w \in Workers : Running(w)}) <= 1
  /\ ~terminated
  /\ (apiObs.op = "connect" /\ apiObs.active)
       => apiObs.ret \notin {"SUCCESS", "terminate"}

\* C6: is_connected() returns true only if the engine has emitted CONNECTED
\* in the current connect attempt.
C6_TrueOnlyAfterConnectedEvent ==
  (apiObs.op = "is_connected" /\ apiObs.ret = 1) => CurrentEmitted

C10_SecondDisconnectNoEffect ==
  (apiObs.op = "disconnect" /\ apiObs.second)
    => (~apiObs.stopped /\ ~apiObs.detached)

\* C11: a disconnect() on a session whose connect attempt is in flight
\* (connecting or connected) requests the engine to stop, which is what
\* unblocks the worker's handshake call.
C11_DisconnectRequestsStop ==
  (apiObs.op = "disconnect" /\ apiObs.active) => apiObs.stopped

\* a disconnect() call is in progress
InDisconnect == apiPc \in {"disc", "disc_stopped"}

\* C12: disconnect() always terminates: a call in progress returns,
\* whether or not the worker ever comes back from the engine.
C12_DisconnectTerminates == InDisconnect ~> ~InDisconnect

C12_Witness ==
  /\ apiObs.op = "disconnect" /\ apiObs.detached
  /\ \E w \in Workers : Running(w)

\* the fields of the session and its client
sessionState == <<connected, connecting, should_stop, last_error, joinable,
                  threadOf, destroying_, callbacksSet, clientFreed, workers>>

\* C14: reconnect() on a session with connected = false and connecting =
\* false changes no field of the session and makes no engine call, whether
\* in its entry step or in its last step; the same for a null session.
C14_IdleReconnectNoOp ==
  [][ /\ (apiPc = "idle" /\ apiPc' = "reconn_idle")
          => UNCHANGED sessionState
      /\ (apiPc = "reconn_idle" /\ apiPc' = "idle")
          => (UNCHANGED sessionState /\ apiObs'.calls = 0)
      /\ (apiObs'.op = "reconnect" /\ apiObs'.null)
          => (UNCHANGED sessionState /\ apiObs'.calls = 0) ]_vars

C14_Witness ==
  /\ apiObs.op = "reconnect" /\ ~apiObs.null /\ ~apiObs.active
  /\ disconnected

\* C15: a reconnect() on a session that is connected or connecting, when
\* the call starts and when it returns, has invoked the engine's reconnect
\* exactly once.
C15_ActiveReconnectOnce ==
  (apiObs.op = "reconnect" /\ apiObs.active /\ (connected \/ connecting))
    => apiObs.calls = 1

\* C16: once the engine has emitted AUTH_FAILED, get_last_error() returns
\* the reason of the failure and is_connected() returns false.
C16_AuthFailedStored ==
  (apiObs.op = "event" /\ apiObs.name = "AUTH_FAILED")
    => (LastErrorText = "AUTH_FAILED" /\ IsConnectedRet = 0)

\* C17: once the engine has emitted an error event flagged fatal,
\* is_connected() returns false.
C17_FatalEventFails ==
  (apiObs.op = "event" /\ apiObs.fatal) => IsConnectedRet = 0

\* C18: no automatic retry: a worker invokes the engine's blocking connect
\* at most once and, once it has ended, stays ended; a step that invokes
\* the engine's reconnect is a step of a reconnect() call of the
\* application, never of a worker.
C18_NoAutomaticRetry ==
  [][ /\ \A w \in Workers :
            /\ workers'[w].calls <= 1
            /\ workers[w].pc = "done" => workers'[w].pc = "done"
      /\ (apiObs'.op = "reconnect" /\ apiObs'.calls > 0 /\ apiObs' # apiObs)
            => (workers' = workers /\ apiPc \in {"idle", "reconn_active"}) ]_vars

C18_Witness ==
  /\ \E w \in Workers : workers[w].pc = "done" /\ workers[w].calls = 1
  /\ last_error = EngineMessage
  /\ apiObs.op = "reconnect" /\ apiObs.calls = 1

\* ============================================== properties, SpecConnect
\* connect() has just returned an error code
ConnectFailed(obs) ==
  obs.op = "connect" /\ obs.ret \notin {"SUCCESS", "terminate"}

\* what an error return of connect() must leave behind
ErrorReturnClean ==
  /\ attempt' = attempt /\ workers' = workers
  /\ ~connected' /\ ~connecting'
  /\ LastErrorText' = Failure(apiObs'.cause).message

C13_ReadRearmed ==
  (stream_ /\ ~halt_) => readPending = "armed"

\* C22: once tun_start has created the pair, a read on the engine end
\* with no packet pending fails at once with would-block and never blocks,
\* while a read on the application end with no packet pending blocks.
C22_EngineEndNonBlocking ==
  (app_fd_ >= 0 /\ lib_fd_ >= 0) =>
      /\ ReadOutcome(lib_fd_, chanToLib) \in {"packet", "would_block"}
      /\ ReadOutcome(app_fd_, chanToApp) \in {"packet", "blocks"}

\* the pair exists, the engine's read is armed and neither end has a
\* packet to read
C22_Witness ==
  /\ app_fd_ >= 0 /\ lib_fd_ >= 0
  /\ readPending = "armed"
  /\ ReadOutcome(lib_fd_, chanToLib) = "would_block"
  /\ ReadOutcome(app_fd_, chanToApp) = "blocks"

\* C30: of a tun_start that created the pair, the pair comes first and has
\* its engine end non-blocking, every configuration callback comes before
\* the arming of the read and before tun_connected, the arming comes
\* before tun_connected, and tun_connected is the last thing done.
C30_StartOrder ==
  (startLog # << >> /\ startLog[1] = "socketpair") =>
    LET n == Len(startLog)
        IsCallback(x) ==
          x \in {"on_ip_assigned", "on_route_pushed", "on_dns_configured"}
        IsLate(x) == x \in {"queue_read", "tun_connected"}
    IN /\ (nextFd - 1) \in nonblock /\ (nextFd - 2) \notin nonblock
       /\ startLog[n] = "tun_connected"
       /\ \A i, j \in 1..n :
            (IsCallback(startLog[i]) /\ IsLate(startLog[j])) => i < j
       /\ \A i, j \in 1..n :
            (startLog[i] = "queue_read" /\ startLog[j] = "tun_connected")
               => i < j
       /\ \A i \in 2..n : startLog[i] # "socketpair"

\* a start that reported address, route and DNS and armed the read
C30_Witness ==
  /\ Len(startLog) = 8
  /\ startLog[2] = "on_ip_assigned" /\ startLog[3] = "on_route_pushed"
  /\ startLog[4] = "on_dns_configured" /\ startLog[7] = "queue_read"

\* C31: a tun_start whose channel creation fails reports the TUN setup
\* error to the engine and does nothing else: both descriptors are -1
\* after it, no pair was handed out, no configuration callback and no
\* parent notification was made, no read is armed, tun_connected was not
\* signalled, and the MTU, the queues and the halt flag are as before.
C31_FailedStartOnlyReports ==
  [][ (\E opt \in TunOptions, streamOk \in BOOLEAN :
          tun_start(opt, FALSE, streamOk))
      => /\ tun_error' /\ startLog' = <<"tun_error">>
         /\ app_fd_' = -1 /\ lib_fd_' = -1
         /\ ~stream_' /\ readPending' # "armed"
         /\ UNCHANGED <<nextFd, nonblock, mtu_, halt_, closes, chanToLib,
                        chanToApp, readPending, cancelCount>> ]_vars

\* the first start succeeded, the adapter was stopped and the second
\* start failed in socketpair()
C31_Witness ==
  /\ startLog = <<"tun_error">> /\ tun_error
  /\ starts = 2 /\ nextFd = 2
  /\ app_fd_ = -1 /\ lib_fd_ = -1

\* C32: a tun_send returns true only when the whole packet was queued on
\* the channel; when the write would block or fails it returns false and
\* queues nothing of the packet, the packets queued before stay queued,
\* and in either case the halt flag, the descriptors, the stream, the
\* armed read and the error state of the adapter are left as they were.
C32_FailedSendDropsOnePacket ==
  [][ \A len \in PktLens, hardError \in BOOLEAN :
        tun_send(len, hardError)
        => /\ UNCHANGED <<halt_, app_fd_, lib_fd_, stream_, readPending,
                          tun_error, closes, cancelCount, chanToLib>>
           /\ IF sendObs'.ret
                THEN chanToApp' =
                       Append(chanToApp,
                              [dir |-> "in", id |-> nextLibId, len |-> len])
                ELSE chanToApp' = chanToApp ]_vars

\* a send has failed on a started adapter whose queue to the application
\* is full; the read is still armed and the adapter is not halted
C32_Witness ==
  /\ sendObs.called /\ sendObs.wrote /\ ~sendObs.ret
  /\ Len(chanToApp) = MaxQueue
  /\ ~halt_ /\ lib_fd_ >= 0 /\ readPending = "armed"

\* C37: the halt flag of an adapter is monotone.  No step clears it, and
\* once it is set: tun_start, run again on the halted adapter, arms no read
\* and builds no stream; a completing read hands nothing to the engine
\* intake and is not queued again; no step at all arms a read that was not
\* already pending or counts a packet as handed to the intake; and
\* every tun_send answers false and queues nothing.
C37_HaltMonotone ==
  [][ halt_ =>
        /\ halt_'
        /\ recvCount' = recvCount
        /\ readPending' = "armed" => readPending = "armed"
        /\ (\E opt \in TunOptions, sockOk, streamOk \in BOOLEAN :
               tun_start(opt, sockOk, streamOk))
             => ~stream_' /\ readPending' # "armed"
        /\ (\E error, intakeThrows \in BOOLEAN :
               handle_read(error, intakeThrows))
             => readPending' = "none"
        /\ (\E len \in PktLens, hardError \in BOOLEAN : tun_send(len, hardError))
             => ~sendObs'.ret /\ UNCHANGED <<chanToApp, chanToLib, libSent>>
    ]_vars

\* the adapter was stopped and started again: it has a fresh socket pair,
\* the halt flag is still set, no read is armed, and a tun_send on the new
\* pair answered false
C37_Witness ==
  /\ halt_ /\ tunAlive /\ stopCalled
  /\ starts = 2 /\ lib_fd_ >= 0 /\ app_fd_ >= 0
  /\ ~stream_ /\ readPending # "armed"
  /\ sendObs.called /\ ~sendObs.wrote /\ ~sendObs.ret
  /\ chanToApp = << >>

\* ================================================= properties, SpecPipes
\* the socket pairs socketpair() has returned for the tunnel id
PairsOf(id) == {p \in socketsCreated : p.id = id}

\* C39: createPipe is idempotent per tunnel id under every interleaving of
\* the calling threads.  At most one socket pair is ever created for a
\* tunnel id, and the map entry of an id is that pair and never changes; a
\* createPipe that finds an entry returns its engine-side descriptor and
\* creates nothing; getPipeWriteFd and getPipeReadFd return the
\* application-side descriptor of the entry, or -1 when the id has none.
\* A call that got no id string (null id, or GetStringUTFChars failed) has
\* no id and answers -1.
C39_CreatePipeIdempotent ==
  [][ /\ \A id \in TunnelIds : Cardinality(PairsOf(id))' <= 1
      /\ \A id \in DOMAIN tunnel_sockets :
            /\ id \in DOMAIN tunnel_sockets'
            /\ tunnel_sockets'[id] = tunnel_sockets[id]
      /\ \A id \in DOMAIN tunnel_sockets' :
            [id |-> id, pair |-> tunnel_sockets'[id]] \in socketsCreated'
      /\ \A t \in PipeThreads :
            /\ (createPipe_find(t) /\ HasPair(pipeCalls[t].id))
                 => /\ pipeCalls'[t].pc = "done"
                    /\ pipeCalls'[t].ret = tunnel_sockets[pipeCalls[t].id].openvpnFd
                    /\ UNCHANGED <<tunnel_sockets, socketsCreated, nextPipeFd>>
            /\ createPipe_insert(t)
                 => /\ ~HasPair(pipeCalls[t].id)
                    /\ pipeCalls'[t].ret = tunnel_sockets'[pipeCalls[t].id].openvpnFd
            /\ getPipeWriteFd_find(t)
                 => /\ pipeCalls'[t].ret =
                         IF HasPair(pipeCalls[t].id)
                           THEN tunnel_sockets[pipeCalls[t].id].kotlinFd
                           ELSE -1
                    /\ UNCHANGED <<tunnel_sockets, socketsCreated, nextPipeFd>>
            /\ (pipeCalls'[t].pc = "done" /\ pipeCalls'[t].id = NoTunnel)
                 => pipeCalls'[t].ret = -1
    ]_vars

\* two threads have called createPipe for the same tunnel id at the same
\* time: both got the engine-side descriptor of the one pair made for it
C39_Witness ==
  /\ HasPair("nordvpn_UK") /\ HasPair("nordvpn_FR")
  /\ \A t \in PipeThreads :
        /\ pipeCalls[t].pc = "done" /\ pipeCalls[t].op = "createPipe"
        /\ pipeCalls[t].id = "nordvpn_UK"
        /\ pipeCalls[t].ret = tunnel_sockets["nordvpn_UK"].openvpnFd
  /\ Cardinality(PairsOf("nordvpn_UK")) = 1

C35_NoCallOnReleasedRef ==
  (ipObs.called /\ ipObs.invoked) => ipObs.live

\* ============================================== properties, SpecRegistry
\* C23: no thread holds sessions_mutex while its call into the session
\* wrapper (set_tunnel_id_and_callback, get_app_fd) is running.
C23_NoLockAcrossCall ==
  \A t \in JniThreads :
      jni[t].pc \in {"set_call", "get_call"} => sessions_mutex # t

\* one thread is inside get_app_fd while another holds the mutex
C23_Witness ==
  \E t, u \in JniThreads :
      /\ jni[t].pc = "get_call"
      /\ u # t /\ sessions_mutex = u

\* C24: a lookup in the registry yields no entry or a live session, never
\* a session that nativeDisconnect has destroyed.
C24_LookupYieldsLive ==
  (lookupObs.called /\ lookupObs.session # NoSession) => lookupObs.live

\* ================================================ properties, SpecRoutes
\* the bytes of the netmask with k one-bits followed by 32 - k zero-bits
LeadingOnes(k) ==
  [j \in 1..4 |-> IF k >= 8 * j THEN 255
                  ELSE IF k <= 8 * (j - 1) THEN 0
                  ELSE 256 - Pow2(8 * j - k)]

\* C25: an IPv4 route whose netmask is k one-bits followed only by
\* zero-bits is reported with prefix length k; an IPv4 route whose netmask
\* does not parse or is not of that form is reported as /32; an IPv6 route
\* is reported as /128.
C25_PrefixFromNetmask ==
  routeObs.called =>
    IF IsIpv6(route.addr) THEN routeObs.prefix_len = 128
    ELSE IF route.netmask = << >> THEN TRUE
    ELSE IF InetPtonOk(route.netmask)
            /\ \E k \in 0..32 : route.netmask = LeadingOnes(k)
      THEN /\ routeObs.prefix_len \in 0..32
           /\ route.netmask = LeadingOnes(routeObs.prefix_len)
      ELSE routeObs.prefix_len = 32

\* 255.255.254.0 has been reported as /23
C25_Witness ==
  /\ routeObs.called /\ ~IsIpv6(route.addr)
  /\ route.netmask = <<255, 255, 254, 0>>
  /\ routeObs.prefix_len = 23

\* ================================================ properties, SpecBuffer
\* C26: a packet of 1..1500 bytes is handed over in a buffer of capacity
\* 256 + P + 128 whose data starts at offset 256, and after a header of up
\* to 100 bytes has been put in front nothing was thrown, the capacity is
\* the same and the P payload bytes are where they were, inside the data.
C26_HeadroomSufficient ==
  (buf # NoBuffer /\ pktSize <= DefaultMtu /\ hdrSize <= MaxOverhead) =>
      /\ buf.error = "none"
      /\ buf.capacity = 256 + pktSize + 128
      /\ buf.payload = 256
      /\ buf.size = pktSize => buf.offset = 256
      /\ buf.size # pktSize =>
            /\ buf.size = pktSize + hdrSize
            /\ buf.offset = 256 - hdrSize
      /\ buf.offset + buf.size = buf.payload + pktSize
      /\ buf.offset + buf.size <= buf.capacity

\* a 1500-byte packet with a 100-byte header put in front
C26_Witness ==
  /\ pktSize = DefaultMtu /\ hdrSize = MaxOverhead
  /\ buf # NoBuffer /\ buf.size = pktSize + hdrSize

\* ================================================ properties, SpecConfig
\* the line is the directive auth-user-pass
IsAuthUserPass(line) == Len(line) >= 1 /\ line[1] = "auth-user-pass"

\* C28: in the text connect() hands to the engine no line contains
\* ping-timer-rem, remote-random or fast-io, some line is an auth-user-pass
\* directive, and no auth-user-pass directive has an argument.
C28_ConfigNormalized ==
  configStage = "normalized" =>
    LET lines == config_content.lines
    IN /\ \A k \in 1..Len(lines) :
            /\ ~Contains(lines[k], "ping-timer-rem")
            /\ ~Contains(lines[k], "remote-random")
            /\ ~Contains(lines[k], "fast-io")
       /\ \E k \in 1..Len(lines) : IsAuthUserPass(lines[k])
       /\ \A k \in 1..Len(lines) :
            IsAuthUserPass(lines[k]) => Len(lines[k]) = 1

\* the lines the normalization writes
NormalDirectives ==
  { <<"auth-user-pass">>, <<"client-cert-not-required">>, <<"verb", "5">> }

\* C40: the normalization works on whole lines.  Every line of the text
\* handed to the engine is a line of the input, unchanged, or one of the
\* directives auth-user-pass, client-cert-not-required and verb 5 (or the
\* empty line in front of an appended directive).
C40_WholeLinesOnly ==
  [][ normalize_config =>
        \A k \in 1..Len(config_content'.lines) :
           LET line == config_content'.lines[k]
           IN \/ line = << >>
              \/ line \in NormalDirectives
              \/ \E j \in 1..Len(config_content.lines) :
                    config_content.lines[j] = line ]_vars

\* =============================================== properties, SpecTunnels
\* an entry point or a worker step of the session at address a
OperationOn(a) ==
  \/ \E id \in TunnelIds, ok \in BOOLEAN : nativeConnect(a, id, ok)
  \/ session_connected(a)
  \/ session_failed(a)
  \/ session_send(a)
  \/ nativeDisconnect(a)
  \/ \E id \in TunnelIds \cup {NoTunnel} : nativeSetTunnelIdAndCallback(a, id)

\* b is a session, and a, before and after the step, is no session or one
\* with another tunnel id
DistinctTunnels(a, b) ==
  /\ a # b /\ pool[b].alive
  /\ pool[a].alive => pool[a].tunnel_id # pool[b].tunnel_id
  /\ pool'[a].alive => pool'[a].tunnel_id # pool[b].tunnel_id

IsPrefix(s, t) == Len(s) <= Len(t) /\ SubSeq(t, 1, Len(s)) = s

\* C29: what destroy has done is, in this order: the disconnect when the
\* session was connected at entry, the release of the engine client, the
\* release of the callback references, the freeing of the session; so no
\* callback reference is released while the engine client exists.
C29_DestroyOrder ==
  /\ \/ IsPrefix(destroyLog, <<"connected", "disconnect", "client_released",
                               "refs_released", "session_freed">>)
     \/ IsPrefix(destroyLog, <<"not_connected", "client_released",
                               "refs_released", "session_freed">>)
  /\ (\E i \in 1..Len(destroyLog) : destroyLog[i] = "refs_released")
        => clientFreed

\* a session connected at entry has been destroyed to the end
C29_Witness ==
  destroyLog = <<"connected", "disconnect", "client_released",
                 "refs_released", "session_freed">>

\* C34: the engine client is never released while a worker of the session
\* is still inside the engine's blocking connect call.
C34_ClientOutlivesWorker ==
  clientFreed => \A w \in Workers : ~Running(w)

\* C38: in every state of a session the flags connected and connecting are
\* not both true.
C38_NotConnectedAndConnecting ==
  ~(connected /\ connecting)

\* C21: the string the application gets from get_last_error() is never
\* empty: it is "No error" when no error was recorded, otherwise the
\* message recorded, as it was at the call or as it is now.
C21_LastErrorReadable ==
  apiObs.op = "get_last_error"
    => (apiObs.ret # "" /\ apiObs.ret \in {apiObs.recorded, LastErrorText})

\* ================================================ properties, SpecFactory
\* C36: a descriptor lookup never reads through the remembered pointer to
\* an adapter the engine has destroyed, and a lookup made after the
\* adapter was destroyed returns -1.
C36_NoLookupThroughDestroyed ==
  fdObs.called =>
     /\ ~fdObs.usedFreed
     /\ (tun_client_ /\ ~tunAlive) => fdObs.ret = -1

\* C20: get_app_fd returns -1 whenever the adapter has not started (no
\* factory, no adapter, tun_start not yet run) or is no longer started; a
\* non-negative descriptor is returned only while the adapter is started
\* and not stopped.
C20_AppFdOnlyWhileStarted ==
  (fdObs.called /\ ~fdObs.started) => fdObs.ret = -1

====
